---- MODULE Spec2Model ----
(***************************************************************************)
(* Model of the call/session orchestration core of ai-call-center:         *)
(*   - AgentManager (backend/internal/agentmgr/agentmgr.go): the registry  *)
(*     maps agents/clients/cancels under the mutex mu, SpawnAgent,         *)
(*     StopAgent, the goroutine SpawnAgent starts (Connect, failure        *)
(*     cleanup, run loop) and ProcessIncomingAudio;                        *)
(*   - Store (libs/store/store.go): the sessions and calls tables;         *)
(*   - RoomClient (livekitclient, in factory.go): Connect, Disconnect,     *)
(*     handleMessages, handleAudioTrack and processAudioChunk;             *)
(*   - the HTTP handlers of cmd/server/main.go: POST /calls, the session   *)
(*     token endpoint and the LiveKit webhook, which is the only caller of *)
(*     SpawnAgent/StopAgent.                                               *)
(*                                                                         *)
(* Any number of request goroutines may call SpawnAgent and StopAgent.     *)
(* SpawnAgent holds mu from its first to its last statement, so at most    *)
(* one invocation is past Lock at a time: sp is that invocation (callers   *)
(* blocked in Lock have not started).  StopAgent holds mu only for its     *)
(* first statements; an invocation that goes on after Unlock is a stop     *)
(* task, named by the CancelFunc it took from the registry.                *)
(* A statement sequence that touches only goroutine-local data, or only    *)
(* the registry maps between Lock and Unlock, is one step; every access to *)
(* the store, to a context or to a RoomClient starts a new step, so other  *)
(* goroutines interleave exactly where the code lets them.  The store      *)
(* itself is reliable: its operations fail only through "no such row".     *)
(*                                                                         *)
(* Spec is the manager's registry and lifecycle under arbitrary callers,   *)
(* FairSpec adds the scheduling of its goroutines, PipelineSpec is         *)
(* ProcessIncomingAudio and processAudioChunk, which share no mutable      *)
(* state with the registry, and WebhookSpec is the server: calls created   *)
(* by POST /calls and the manager driven by webhook events.  EndpointSpec  *)
(* is the token endpoint and the store's own operations, where inserts,    *)
(* the transaction's Begin and its Commit may fail.  AudioLoopSpec is      *)
(* handleAudioTrack with the goroutines its flushes start, over Go's       *)
(* slices: views of byte arrays that may be shared.  FileAgentSpec is      *)
(* CallAgent.HandleAudioFile (backend/internal/agents/agent.go) writing    *)
(* its output file.  OverlapSpec is the webhook handler serving several    *)
(* requests at once, as net/http does, with the manager calls they make.   *)
(***************************************************************************)
EXTENDS Integers, Sequences, FiniteSets, TLC

\* ----- bounds -----------------------------------------------------------
MaxCalls == 2
MaxSessions == 2
MaxRuns == 2          \* ProcessIncomingAudio invocations in a behaviour
MaxChunks == 1        \* processAudioChunk runs in a behaviour
MaxHandlers == 1      \* webhook requests being handled at the same time
MaxPosts == 1         \* POST /calls requests in a behaviour
MaxFrames == 3        \* RTP packets read by one handleAudioTrack
MaxFlushes == 2       \* ticks that find a non-empty buffer
AudioCap == 2         \* capacity given to make (32000 in factory.go:239)
MaxOverlap == 2       \* webhook requests net/http serves at once in OverlapSpec

CallIDs == 1..MaxCalls
SessionIDs == 1..MaxSessions
Handlers == 1..MaxHandlers

\* ----- zero values ------------------------------------------------------
NoSession == 0        \* "" as a session id, nil as a *RoomClient or CancelFunc
NoCall == 0
NoToken == <<>>       \* "" / SQL NULL in sessions.token
NoRet == [op |-> "none", call |-> NoCall, err |-> "nil", sid |-> NoSession, token |-> NoToken]

VARIABLES
  cfg,        \* cfg.VendorSettings["livekit"]: which of url, api_key, api_secret are non-empty
  mu,         \* AgentManager.mu is held (by the SpawnAgent invocation sp)
  agents,     \* AgentManager.agents  : callID -> agent session id
  clients,    \* AgentManager.clients : callID -> room client (named by its agent session)
  cancels,    \* AgentManager.cancels : callID -> cancel function (named by its agent session)
  sessions,   \* sessions table: row i has id i
  calls,      \* calls table: callID -> status, "none" when there is no row
  sp,         \* the SpawnAgent invocation past Lock: position and locals
  stops,      \* per CancelFunc: the StopAgent invocation that took it, position and locals
  ret,        \* what the step that led to this state returned to its caller,
              \* NoRet when that step was no return
  gpc,        \* per agent session: position of the goroutine started by SpawnAgent
  ctxDone,    \* per agent session: the context created at agentmgr.go:85 is cancelled
  rc,         \* per agent session: the RoomClient's fields
  panicked,   \* a goroutine has panicked (call of a nil function)
  attempted,  \* history, per call: a SpawnAgent has returned since the last handle removal
  okSince,    \* history, per call: number of SpawnAgent successes since the last handle removal
  removedBy,  \* history, per agent session: who found its handle present and removed
              \* it, <<"stop", NoSession>> or <<"cleanup", s>> for the cleanup of agent s
  issued,     \* history, per agent session: token returned by the SpawnAgent that created it
  vendors,    \* which of AgentManager.stt, llm, tts are non-nil
  pia,        \* the ProcessIncomingAudio invocation: position, arguments, locals, result
  vcalls,     \* the vendor calls the invocation has made, in order, each
              \* <<name, argument, whether it returned an error>>
  files,      \* the os.WriteFile calls made under out/agents, in order
  runs,       \* number of ProcessIncomingAudio invocations started
  chunk,      \* the processAudioChunk run: position, argument, locals
  ccalls,     \* the vendor calls that run has made, in order
  published,  \* the audio handed to publishAudio, in order
  cruns,      \* number of processAudioChunk runs started
  callers,    \* sessions table, the rows made by CreateCall: per call, the status
              \* of its caller session, "none" when there is no row
  wh,         \* per webhook handler goroutine: position, the event, locals, response
  leftSeen,   \* history: the calls for which a participant_left or room event
              \* has been dispatched
  tokenSecret,\* AGENT_TOKEN_ENDPOINT_SECRET, "" when unset
  resp,       \* the response the sessions endpoint wrote in this step
  tx,         \* the CreateCall transaction in progress: position, uncommitted rows
  written,    \* history: per session, the token of the last successful
              \* UpdateSessionToken (NoToken before the first)
  arrays,     \* the byte arrays allocated by make and append in handleAudioTrack
  audioBuffer,\* handleAudioTrack's slice: [arr, len] (its cap is the array's length)
  flushed,    \* the processAudioChunk goroutines started by the flushes, in order:
              \* the slice each was passed, the bytes it held at the flush
              \* (history) and the bytes the goroutine has read so far
  audioLoop,  \* handleAudioTrack is "running" or has "returned"
  nframes,    \* RTP packets read so far
  inbound,    \* history: the payload bytes of the packets read, in arrival order
  haf,        \* the CallAgent.HandleAudioFile invocation: its position, locals,
              \* result and the vendor calls it has made
  outFile     \* the file at outputPath: NoFile, or its bytes

vars == <<cfg, mu, agents, clients, cancels, sessions, calls, sp, stops, ret, gpc,
          ctxDone, rc, panicked, attempted, okSince, removedBy, issued,
          vendors, pia, vcalls, files, runs, chunk, ccalls, published, cruns,
          callers, wh, leftSeen, tokenSecret, resp, tx, written,
          arrays, audioBuffer, flushed, audioLoop, nframes, inbound, haf, outFile>>

registry == <<agents, clients, cancels>>
store == <<sessions, calls>>
hist == <<attempted, okSince, removedBy, issued>>
webhook == <<callers, wh, leftSeen>>
endpoints == <<tokenSecret, resp, tx, written>>
stream == <<chunk, ccalls, published, cruns>>
audioloop == <<arrays, audioBuffer, flushed, audioLoop, nframes, inbound>>
fileagent == <<haf, outFile>>
pipeline == <<vendors, pia, vcalls, files, runs, stream, audioloop, fileagent>>
manager == <<cfg, mu, registry, store, sp, stops, ret, gpc, ctxDone, rc, panicked, hist>>

\* ----- Go maps ----------------------------------------------------------
MapPut(m, k, v) == [x \in (DOMAIN m) \cup {k} |-> IF x = k THEN v ELSE m[x]]
MapDelete(m, k) == [x \in (DOMAIN m) \ {k} |-> m[x]]
MapGet(m, k) == IF k \in DOMAIN m THEN m[k] ELSE NoSession
EmptyMap == [x \in {} |-> NoSession]

\* ----- Store ------------------------------------------------------------
\* CreateSession: INSERT of a row with a fresh id (genID), no token.
CreateSession(sess, callID, userID, typ, status) ==
  Append(sess, [call |-> callID, user |-> userID, type |-> typ,
                status |-> status, token |-> NoToken])

NewSessionID(sess) == Len(sess) + 1

SessionExists(sess, sid) == sid \in 1..Len(sess)

\* The status update writing nothing.
UpdateSessionStatus_Nothing(sess, sid, status) == sess

\* UPDATE sessions SET status = ? WHERE id = ?  (no row: error, nothing changes)
UpdateSessionStatus(sess, sid, status) ==
  IF SessionExists(sess, sid) THEN [sess EXCEPT ![sid].status = status] ELSE sess

\* The token update writing nothing.
UpdateSessionToken_Lost(sess, sid, token) == sess

\* UPDATE sessions SET token = ? WHERE id = ?
UpdateSessionToken(sess, sid, token) ==
  IF SessionExists(sess, sid) THEN [sess EXCEPT ![sid].token = token] ELSE sess

\* SELECT token FROM sessions WHERE id = ?; NULL reads as "", and "" is also
\* what comes with the error when there is no row.
GetSessionToken(sess, sid) ==
  IF SessionExists(sess, sid) THEN sess[sid].token ELSE NoToken

\* ----- token issuance ---------------------------------------------------
\* A signed JWT naming the room and the identity.
GenerateAccessToken(room, identity) == <<room, identity>>

GenerateAccessTokenErr(c) == ~(c.api_key /\ c.api_secret)

\* ----- RoomClient -------------------------------------------------------
NewRoomClient == [cancelled |-> FALSE, conn |-> "nil", pc |-> "nil"]

\* Disconnect: cancel the client's context, close pc and conn when non-nil.
\* seesPc/seesConn: the unsynchronised read of rc.pc / rc.conn observes the
\* value Connect has written.
Disconnect(r, seesPc, seesConn) ==
  [r EXCEPT !.cancelled = TRUE,
            !.pc = IF seesPc /\ r.pc # "nil" THEN "closed" ELSE r.pc,
            !.conn = IF seesConn /\ r.conn # "nil" THEN "closed" ELSE r.conn]

\* ----- registry ---------------------------------------------------------
\* The exists check never finding a handle.
AgentExists_Never(ag, callID) == FALSE

\* agentmgr.go:51, _, ok := m.agents[callID]
AgentExists(ag, callID) == callID \in DOMAIN ag

\* The lookup of the cancel function reporting ok for every call.
StopOk_Always(ca, callID) == TRUE

\* agentmgr.go:121, cancel, ok := m.cancels[callID]
StopOk(ca, callID) == callID \in DOMAIN ca

\* The cleanup deleting nothing.
CleanupRegistry_Nothing(reg, callID) == reg

\* The cleanup without its delete(m.clients, callID).
CleanupRegistry_KeepsClient(reg, callID) ==
  [agents |-> MapDelete(reg.agents, callID),
   clients |-> reg.clients,
   cancels |-> MapDelete(reg.cancels, callID)]

\* agentmgr.go:97-99, the deletes of the connect-failure cleanup
CleanupRegistry(reg, callID) ==
  [agents |-> MapDelete(reg.agents, callID),
   clients |-> MapDelete(reg.clients, callID),
   cancels |-> MapDelete(reg.cancels, callID)]

\* StopAgent clearing the three maps.
StopRegistry_All(reg, callID) ==
  [agents |-> EmptyMap, clients |-> EmptyMap, cancels |-> EmptyMap]

\* agentmgr.go:124-126, the deletes of StopAgent
StopRegistry(reg, callID) ==
  [agents |-> MapDelete(reg.agents, callID),
   clients |-> MapDelete(reg.clients, callID),
   cancels |-> MapDelete(reg.cancels, callID)]

Reg == [agents |-> agents, clients |-> clients, cancels |-> cancels]

\* ----- locals -----------------------------------------------------------
SpIdle == [pc |-> "idle", call |-> NoCall, sid |-> NoSession, token |-> NoToken]
NoStop == [pc |-> "none", call |-> NoCall, sid |-> NoSession, client |-> NoSession]

StopKeys == {NoSession} \cup SessionIDs   \* a CancelFunc, or nil
ConnectSteps == {"dial", "peer"}
FailedSteps == {"clean_lock", "clean_mark", "done_failed"}

Returned(op, callID, err, sid, token) ==
  [op |-> op, call |-> callID, err |-> err, sid |-> sid, token |-> token]

\* NewAgentManager: empty maps; the store is freshly migrated.
ManagerIdle ==
  /\ mu = FALSE
  /\ agents = EmptyMap
  /\ clients = EmptyMap
  /\ cancels = EmptyMap
  /\ sessions = <<>>
  /\ calls = [c \in CallIDs |-> "none"]
  /\ sp = SpIdle
  /\ stops = [k \in StopKeys |-> NoStop]
  /\ ret = NoRet
  /\ gpc = [s \in SessionIDs |-> "none"]
  /\ ctxDone = [s \in SessionIDs |-> FALSE]
  /\ rc = [s \in SessionIDs |-> NewRoomClient]
  /\ panicked = FALSE
  /\ attempted = [c \in CallIDs |-> FALSE]
  /\ okSince = [c \in CallIDs |-> 0]
  /\ removedBy = [s \in SessionIDs |-> {}]
  /\ issued = [s \in SessionIDs |-> NoToken]

\* No ProcessIncomingAudio invocation has been made.
PiaIdle == [pc |-> "idle", sid |-> NoSession, audio |-> <<>>, transcript |-> "",
            conf |-> 0, reply |-> "", res |-> "", err |-> "nil"]

\* No file at outputPath; HandleAudioFile has not been called.
NoFile == <<"absent">>
HafIdle == [pc |-> "idle", transcript |-> "", resp |-> "", err |-> "nil", calls |-> <<>>,
            before |-> NoFile]   \* before: the file as it was at the call (history)

\* No processAudioChunk run has been started.
ChunkIdle == [pc |-> "idle", run |-> 0, audio |-> <<>>, track |-> FALSE, transcript |-> "",
              conf |-> 0, response |-> "", audioData |-> <<>>, end |-> "none"]

\* The body of no request.
NoBody == [wellformed |-> FALSE, type |-> "", identity |-> NoSession, room |-> NoCall]

\* No webhook request is being handled.
WhIdle == [pc |-> "idle", type |-> "", identity |-> NoSession, room |-> NoCall,
           call |-> NoCall, spawn |-> "none", stop |-> "none", key |-> NoSession,
           code |-> 0, overlap |-> FALSE,
           method |-> "", sig |-> <<>>, body |-> NoBody]

\* No response, and no transaction.
NoResp == [op |-> "none", id |-> NoSession, code |-> 0, token |-> NoToken, read |-> FALSE,
           auth |-> <<>>, xauth |-> ""]
NoTx == [pc |-> "idle", call |-> NoCall, callerID |-> "", rows |-> {}]

\* The sessions endpoint has served nothing and no CreateCall is running.
EndpointsIdle ==
  /\ resp = NoResp
  /\ tx = NoTx
  /\ written = [s \in SessionIDs |-> NoToken]

\* No call has been created and no webhook has arrived.
WebhookIdle ==
  /\ callers = [c \in CallIDs |-> "none"]
  /\ wh = [h \in Handlers |-> WhIdle]
  /\ leftSeen = {}

\* factory.go:239, audioBuffer := make([]byte, 0, 32000): one zeroed array,
\* the slice empty; no packet read, no flush yet.
AudioLoopIdle ==
  /\ arrays = <<[j \in 1..AudioCap |-> 0]>>
  /\ audioBuffer = [arr |-> 1, len |-> 0]
  /\ flushed = <<>>
  /\ audioLoop = "running"
  /\ nframes = 0
  /\ inbound = <<>>

\* No pipeline run, in ProcessIncomingAudio or on a track, has been started.
StreamsIdle ==
  /\ pia = PiaIdle
  /\ vcalls = <<>>
  /\ files = <<>>
  /\ runs = 0
  /\ chunk = ChunkIdle
  /\ ccalls = <<>>
  /\ published = <<>>
  /\ cruns = 0
  /\ AudioLoopIdle

PipelineIdle ==
  /\ StreamsIdle
  /\ haf = HafIdle
  /\ outFile = NoFile

Init ==
  /\ cfg \in [url : BOOLEAN, api_key : BOOLEAN, api_secret : BOOLEAN]
  /\ ManagerIdle
  /\ vendors = [stt |-> FALSE, llm |-> FALSE, tts |-> FALSE]
  /\ PipelineIdle
  /\ WebhookIdle
  /\ tokenSecret = ""
  /\ EndpointsIdle

\* ----- AgentManager.SpawnAgent -----------------------------------------
\* The deferred Unlock leaving the mutex held.
Unlock_Held(m) == m

\* agentmgr.go:50, defer m.mu.Unlock()
Unlock(m) == FALSE

\* agentmgr.go:49-59: Lock, the exists check, CreateSession.
SpawnAgentCall(callID) ==
  /\ ~mu
  /\ IF AgentExists(agents, callID)
       THEN /\ ret' = Returned("spawn", callID, "exists", NoSession, NoToken)
            /\ attempted' = [attempted EXCEPT ![callID] = TRUE]
            /\ UNCHANGED <<mu, sessions, sp>>
       ELSE /\ Len(sessions) < MaxSessions
            /\ mu' = TRUE
            /\ sessions' = CreateSession(sessions, callID, "ai-agent", "agent", "new")
            /\ sp' = [pc |-> "token", call |-> callID, sid |-> NewSessionID(sessions),
                      token |-> NoToken]
            /\ ret' = NoRet
            /\ UNCHANGED <<attempted>>
  /\ UNCHANGED <<endpoints, pipeline, cfg, registry, calls, stops, gpc, ctxDone, rc, panicked,
                 okSince, removedBy, issued>>

\* SpawnAgent invoked on its own.
SpawnBegin(callID) == SpawnAgentCall(callID) /\ UNCHANGED webhook

\* agentmgr.go:62-79: the livekit settings, the url check, token issuance,
\* UpdateSessionToken.  An error return runs the deferred Unlock.
SpawnToken ==
  /\ sp.pc = "token"
  /\ LET token == GenerateAccessToken(sp.call, sp.sid)
     IN IF ~cfg.url \/ GenerateAccessTokenErr(cfg)
          THEN /\ ret' = Returned("spawn", sp.call, IF ~cfg.url THEN "url" ELSE "key",
                                  NoSession, NoToken)
               /\ mu' = Unlock(mu)
               /\ sp' = SpIdle
               /\ attempted' = [attempted EXCEPT ![sp.call] = TRUE]
               /\ UNCHANGED sessions
          ELSE /\ sessions' = UpdateSessionToken(sessions, sp.sid, token)
               /\ sp' = [sp EXCEPT !.pc = "active", !.token = token]
               /\ ret' = NoRet
               /\ UNCHANGED <<mu, attempted>>
  /\ UNCHANGED <<webhook, endpoints, pipeline, cfg, registry, calls, stops, gpc, ctxDone, rc, panicked,
                 okSince, removedBy, issued>>

\* agentmgr.go:82-88: mark the session active, create ctx and the room
\* client, m.agents[callID] = sessionID.
SpawnActive ==
  /\ sp.pc = "active"
  /\ sessions' = UpdateSessionStatus(sessions, sp.sid, "active")
  /\ agents' = MapPut(agents, sp.call, sp.sid)
  /\ sp' = [sp EXCEPT !.pc = "register"]
  /\ ret' = NoRet
  /\ UNCHANGED <<webhook, endpoints, pipeline, cfg, mu, clients, cancels, calls, stops, gpc, ctxDone, rc,
                 panicked, hist>>

\* agentmgr.go:89-93: m.clients, m.cancels, and the go statement.
SpawnRegister ==
  /\ sp.pc = "register"
  /\ clients' = MapPut(clients, sp.call, sp.sid)
  /\ cancels' = MapPut(cancels, sp.call, sp.sid)
  /\ gpc' = [gpc EXCEPT ![sp.sid] = "dial"]
  /\ sp' = [sp EXCEPT !.pc = "return"]
  /\ ret' = NoRet
  /\ UNCHANGED <<webhook, endpoints, pipeline, cfg, mu, agents, store, stops, ctxDone, rc, panicked, hist>>

\* agentmgr.go:115: return sessionID, token, nil; the deferred Unlock.
SpawnReturn ==
  /\ sp.pc = "return"
  /\ ret' = Returned("spawn", sp.call, "nil", sp.sid, sp.token)
  /\ mu' = Unlock(mu)
  /\ sp' = SpIdle
  /\ attempted' = [attempted EXCEPT ![sp.call] = TRUE]
  /\ okSince' = [okSince EXCEPT ![sp.call] = @ + 1]
  /\ issued' = [issued EXCEPT ![sp.sid] = sp.token]
  /\ UNCHANGED <<webhook, endpoints, pipeline, cfg, registry, store, stops, gpc, ctxDone, rc, panicked, removedBy>>

\* ----- AgentManager.StopAgent ------------------------------------------
\* agentmgr.go:120-130: the critical section and the !ok return.
StopAgentCall(callID) ==
  /\ ~mu
  /\ LET ok == StopOk(cancels, callID)
         cancel == MapGet(cancels, callID)
         r == StopRegistry(Reg, callID)
         found == AgentExists(agents, callID)
     IN /\ agents' = r.agents
        /\ clients' = r.clients
        /\ cancels' = r.cancels
        /\ removedBy' = IF found
                          THEN [removedBy EXCEPT ![agents[callID]] = @ \cup {<<"stop", NoSession>>}]
                          ELSE removedBy
        /\ okSince' = IF found THEN [okSince EXCEPT ![callID] = 0] ELSE okSince
        /\ attempted' = IF found THEN [attempted EXCEPT ![callID] = FALSE] ELSE attempted
        /\ IF ~ok
             THEN /\ ret' = Returned("stop", callID, "noagent", NoSession, NoToken)
                  /\ UNCHANGED stops
             ELSE /\ stops[cancel].pc = "none"
                  /\ stops' = [stops EXCEPT ![cancel] =
                                 [pc |-> "cancel", call |-> callID,
                                  sid |-> MapGet(agents, callID),
                                  client |-> MapGet(clients, callID)]]
                  /\ ret' = NoRet
  /\ UNCHANGED <<endpoints, pipeline, cfg, mu, store, sp, gpc, ctxDone, rc, panicked, issued>>

\* StopAgent invoked on its own.
StopBegin(callID) == StopAgentCall(callID) /\ UNCHANGED webhook

\* agentmgr.go:133: cancel().  Calling a nil CancelFunc panics.
StopCancel(k) ==
  /\ stops[k].pc = "cancel"
  /\ IF k = NoSession
       THEN /\ panicked' = TRUE
            /\ stops' = [stops EXCEPT ![k].pc = "panic"]
            /\ UNCHANGED ctxDone
       ELSE /\ ctxDone' = [ctxDone EXCEPT ![k] = TRUE]
            /\ stops' = [stops EXCEPT ![k].pc = "disconnect"]
            /\ UNCHANGED panicked
  /\ ret' = NoRet
  /\ UNCHANGED <<webhook, endpoints, pipeline, cfg, mu, registry, store, sp, gpc, rc, hist>>

\* agentmgr.go:136-140: client.Disconnect() when client != nil.  While the
\* agent's goroutine is still inside Connect the reads of rc.pc and rc.conn
\* race with Connect's writes and may miss them.
StopDisconnect(k) ==
  /\ stops[k].pc = "disconnect"
  /\ LET s == stops[k].client
     IN IF s = NoSession
          THEN UNCHANGED rc
          ELSE \E seesPc, seesConn \in BOOLEAN :
                 /\ (gpc[s] \notin ConnectSteps) => (seesPc /\ seesConn)
                 /\ rc' = [rc EXCEPT ![s] = Disconnect(rc[s], seesPc, seesConn)]
  /\ stops' = [stops EXCEPT ![k].pc = "mark"]
  /\ ret' = NoRet
  /\ UNCHANGED <<webhook, endpoints, pipeline, cfg, mu, registry, store, sp, gpc, ctxDone, panicked, hist>>

\* agentmgr.go:143-144: UpdateSessionStatus(sessionID, "ended"); return nil.
StopMark(k) ==
  /\ stops[k].pc = "mark"
  /\ ret' = Returned("stop", stops[k].call, "nil", NoSession, NoToken)
  /\ sessions' = UpdateSessionStatus(sessions, stops[k].sid, "ended")
  /\ stops' = [stops EXCEPT ![k].pc = "done"]
  /\ UNCHANGED <<webhook, endpoints, pipeline, cfg, mu, registry, calls, sp, gpc, ctxDone, rc, panicked, hist>>

\* ----- the goroutine started by SpawnAgent ------------------------------
SessionCall(s) == sessions[s].call

\* factory.go:127-152 (RoomClient.Connect): dial the websocket; on success
\* rc.conn is set and handleMessages is started.
ConnectDial(s) ==
  /\ gpc[s] = "dial"
  /\ \/ /\ gpc' = [gpc EXCEPT ![s] = "clean_lock"]
        /\ UNCHANGED rc
     \/ /\ rc' = [rc EXCEPT ![s].conn = "open"]
        /\ gpc' = [gpc EXCEPT ![s] = "peer"]
  /\ ret' = NoRet
  /\ UNCHANGED <<webhook, endpoints, pipeline, cfg, mu, registry, store, sp, stops, ctxDone, panicked, hist>>

\* factory.go:154-192 (RoomClient.Connect): peer connection, audio track,
\* AddTrack; each may fail, leaving what was opened before it.
ConnectPeer(s) ==
  /\ gpc[s] = "peer"
  /\ \E outcome \in {"pc_err", "track_err", "ok"} :
       /\ rc' = [rc EXCEPT ![s].pc = IF outcome = "pc_err" THEN @ ELSE "open"]
       /\ gpc' = [gpc EXCEPT ![s] = IF outcome = "ok" THEN "wait" ELSE "clean_lock"]
  /\ ret' = NoRet
  /\ UNCHANGED <<webhook, endpoints, pipeline, cfg, mu, registry, store, sp, stops, ctxDone, panicked, hist>>

\* factory.go:196-232 (handleMessages), started by Connect once rc.conn is
\* set.  The loop ends only by returning, which runs its deferred
\* rc.conn.Close(): when it finds rc.ctx done at the select (at once when
\* started after the cancellation, otherwise after the next message), or
\* when ReadMessage fails.  ReadMessage fails on a websocket that has been
\* closed, so the task is alive exactly while rc.conn is open; a server
\* that keeps the websocket open and silent ends nothing.
HandleMessagesRunning(r) == r.conn = "open"

HandleMessagesReturn(s) ==
  /\ HandleMessagesRunning(rc[s])
  /\ rc[s].cancelled
  /\ rc' = [rc EXCEPT ![s].conn = "closed"]
  /\ ret' = NoRet
  /\ UNCHANGED <<webhook, endpoints, pipeline, cfg, mu, registry, store, sp, stops, gpc, ctxDone, panicked, hist>>

\* agentmgr.go:95-100: the connect-failure cleanup's critical section.
CleanupRemove(s) ==
  /\ gpc[s] = "clean_lock"
  /\ ~mu
  /\ LET callID == SessionCall(s)
         r == CleanupRegistry(Reg, callID)
         found == AgentExists(agents, callID)
     IN /\ agents' = r.agents
        /\ clients' = r.clients
        /\ cancels' = r.cancels
        /\ removedBy' = IF found
                          THEN [removedBy EXCEPT ![agents[callID]] = @ \cup {<<"cleanup", s>>}]
                          ELSE removedBy
        /\ okSince' = IF found THEN [okSince EXCEPT ![callID] = 0] ELSE okSince
        /\ attempted' = IF found THEN [attempted EXCEPT ![callID] = FALSE] ELSE attempted
  /\ gpc' = [gpc EXCEPT ![s] = "clean_mark"]
  /\ ret' = NoRet
  /\ UNCHANGED <<webhook, endpoints, pipeline, cfg, mu, store, sp, stops, ctxDone, rc, panicked, issued>>

\* agentmgr.go:101-102: UpdateSessionStatus(sessionID, "ended"); return.
CleanupMark(s) ==
  /\ gpc[s] = "clean_mark"
  /\ sessions' = UpdateSessionStatus(sessions, s, "ended")
  /\ gpc' = [gpc EXCEPT ![s] = "done_failed"]
  /\ ret' = NoRet
  /\ UNCHANGED <<webhook, endpoints, pipeline, cfg, mu, registry, calls, sp, stops, ctxDone, rc, panicked, hist>>

\* agentmgr.go:106-111: <-ctx.Done(), then roomClient.Disconnect().
RunDisconnect(s) ==
  /\ gpc[s] = "wait"
  /\ ctxDone[s]
  /\ rc' = [rc EXCEPT ![s] = Disconnect(rc[s], TRUE, TRUE)]
  /\ gpc' = [gpc EXCEPT ![s] = "run_mark"]
  /\ ret' = NoRet
  /\ UNCHANGED <<webhook, endpoints, pipeline, cfg, mu, registry, store, sp, stops, ctxDone, panicked, hist>>

\* agentmgr.go:112: UpdateSessionStatus(sessionID, "ended").
RunMark(s) ==
  /\ gpc[s] = "run_mark"
  /\ sessions' = UpdateSessionStatus(sessions, s, "ended")
  /\ gpc' = [gpc EXCEPT ![s] = "done"]
  /\ ret' = NoRet
  /\ UNCHANGED <<webhook, endpoints, pipeline, cfg, mu, registry, calls, sp, stops, ctxDone, rc, panicked, hist>>

Next ==
  \/ \E c \in CallIDs : SpawnBegin(c)
  \/ SpawnToken
  \/ SpawnActive
  \/ SpawnRegister
  \/ SpawnReturn
  \/ \E c \in CallIDs : StopBegin(c)
  \/ \E k \in StopKeys : StopCancel(k)
  \/ \E k \in StopKeys : StopDisconnect(k)
  \/ \E k \in StopKeys : StopMark(k)
  \/ \E s \in SessionIDs : ConnectDial(s)
  \/ \E s \in SessionIDs : ConnectPeer(s)
  \/ \E s \in SessionIDs : HandleMessagesReturn(s)
  \/ \E s \in SessionIDs : CleanupRemove(s)
  \/ \E s \in SessionIDs : CleanupMark(s)
  \/ \E s \in SessionIDs : RunDisconnect(s)
  \/ \E s \in SessionIDs : RunMark(s)

Spec == Init /\ [][Next]_vars

\* Every goroutine that can take a step is scheduled.  The cleanup's Lock
\* competes with request goroutines for mu; sync.Mutex hands the lock to a
\* waiter that has starved, so a cleanup that finds mu free again and again
\* acquires it.  Requests (SpawnBegin, StopBegin) need not arrive.
Fairness ==
  /\ WF_vars(SpawnToken) /\ WF_vars(SpawnActive)
  /\ WF_vars(SpawnRegister) /\ WF_vars(SpawnReturn)
  /\ \A k \in StopKeys :
       WF_vars(StopCancel(k)) /\ WF_vars(StopDisconnect(k)) /\ WF_vars(StopMark(k))
  /\ \A s \in SessionIDs :
       /\ WF_vars(ConnectDial(s)) /\ WF_vars(ConnectPeer(s))
       /\ SF_vars(CleanupRemove(s)) /\ WF_vars(CleanupMark(s))
       /\ WF_vars(RunDisconnect(s)) /\ WF_vars(RunMark(s))

FairSpec == Spec /\ Fairness

\* ----- AgentManager.ProcessIncomingAudio --------------------------------
\* The method reads only m.stt, m.llm and m.tts, which are set at
\* construction, and touches neither mu, the registry nor the store.
\* Confidence is a float32 in the code; here it is in hundredths.
ConfThreshold == 50
Transcripts == {"", "hello"}
Confidences == {30, ConfThreshold, 90}
Replies == {"", "hi there"}
AudioInputs == {<<>>, <<7>>}
AudioOuts == {<<>>, <<1>>}
\* The Recognize error being ignored.
RecognizeAborts_Never(failed) == FALSE

\* factory.go:285-288 and agentmgr.go:156-158, if err != nil { return }
RecognizeAborts(failed) == failed

\* No fallback text.
FallbackReply_Empty == ""

FallbackReply == "I heard you. Let me know if you'd like help."

\* The recognizer taken to be configured whatever m.stt is.
SttConfigured_Always(v) == TRUE

\* agentmgr.go:150 and factory.go:280, the negation of stt == nil
SttConfigured(v) == v.stt

\* The artifact written whatever Speak returned.
WritesArtifact_Always(failed, audioOut) == TRUE

\* agentmgr.go:175, err == nil && len(audioOut) > 0
WritesArtifact(failed, audioOut) == ~failed /\ Len(audioOut) > 0

\* agentmgr.go:149-152
PiaBegin(sessionID, audio) ==
  /\ pia.pc \in {"idle", "returned"}
  /\ runs < MaxRuns
  /\ runs' = runs + 1
  /\ vcalls' = <<>>
  /\ pia' = IF SttConfigured(vendors)
              THEN [PiaIdle EXCEPT !.pc = "recognize", !.sid = sessionID, !.audio = audio]
              ELSE [PiaIdle EXCEPT !.pc = "returned", !.sid = sessionID, !.audio = audio,
                                   !.err = "stt not configured"]
  /\ UNCHANGED <<fileagent, audioloop, endpoints, webhook, manager, stream, vendors, files>>

\* agentmgr.go:155-158: transcript, _, err := m.stt.Recognize(audio).  The
\* confidence goes to the blank identifier; pia.conf only records what
\* Recognize returned and no step reads it.
PiaRecognize ==
  /\ pia.pc = "recognize"
  /\ \E transcript \in Transcripts, conf \in Confidences, failed \in BOOLEAN :
       /\ vcalls' = Append(vcalls, <<"Recognize", pia.audio, failed>>)
       /\ pia' = IF RecognizeAborts(failed)
                   THEN [pia EXCEPT !.pc = "returned", !.err = "recognize"]
                   ELSE [pia EXCEPT !.pc = "generate", !.transcript = transcript,
                                    !.conf = conf]
  /\ UNCHANGED <<fileagent, audioloop, endpoints, webhook, manager, stream, vendors, files, runs>>

\* agentmgr.go:161-170: Generate when an llm is configured; its error is
\* dropped, and an empty reply is replaced by the fixed one.
PiaGenerate ==
  /\ pia.pc = "generate"
  /\ IF vendors.llm
       THEN \E r \in Replies, failed \in BOOLEAN :
              LET reply == IF failed THEN "" ELSE r
              IN /\ vcalls' = Append(vcalls, <<"Generate", pia.transcript, failed>>)
                 /\ pia' = [pia EXCEPT !.pc = "speak",
                                       !.reply = IF reply = "" THEN FallbackReply ELSE reply]
       ELSE /\ pia' = [pia EXCEPT !.pc = "speak", !.reply = FallbackReply]
            /\ UNCHANGED vcalls
  /\ UNCHANGED <<fileagent, audioloop, endpoints, webhook, manager, stream, vendors, files, runs>>

\* agentmgr.go:173-181: Speak when a tts is configured; non-empty audio
\* returned without error is written to out/agents/agent-reply-<session>-<unix time>.wav.
PiaSpeak ==
  /\ pia.pc = "speak"
  /\ IF vendors.tts
       THEN \E audioOut \in AudioOuts, failed \in BOOLEAN :
              /\ vcalls' = Append(vcalls, <<"Speak", pia.reply, failed>>)
              /\ files' = IF WritesArtifact(failed, audioOut)
                            THEN Append(files, [session |-> pia.sid, run |-> runs,
                                                data |-> audioOut])
                            ELSE files
       ELSE UNCHANGED <<vcalls, files>>
  /\ pia' = [pia EXCEPT !.pc = "return"]
  /\ UNCHANGED <<fileagent, audioloop, endpoints, webhook, manager, stream, vendors, runs>>

\* agentmgr.go:183: return transcript, nil
PiaReturn ==
  /\ pia.pc = "return"
  /\ pia' = [pia EXCEPT !.pc = "returned", !.res = pia.transcript, !.err = "nil"]
  /\ UNCHANGED <<fileagent, audioloop, endpoints, webhook, manager, stream, vendors, vcalls, files, runs>>

\* ----- RoomClient.processAudioChunk --------------------------------------
\* The run started by handleAudioTrack for one window ("go
\* rc.processAudioChunk(audioBuffer)").  rc.stt, rc.llm and rc.tts are the
\* manager's (agentmgr.go:86); track is whether rc.audioTrack is non-nil.
ChunkFallback == "I'm sorry, I didn't catch that."
Echo(transcript) == "I heard you say: " \o transcript

\* The gate letting every window through.
GatePasses_Always(transcript, conf) == TRUE

\* factory.go:290, the negation of confidence < 0.5 || transcript == ""
GatePasses(transcript, conf) == ~(conf < ConfThreshold \/ transcript = "")

\* The Speak error being ignored.
SpeakAborts_Never(failed) == FALSE

\* factory.go:312-315, if err != nil { return }; agentmgr.go:175, err == nil
SpeakAborts(failed) == failed

\* factory.go:274-282
ChunkBegin(audio, track) ==
  /\ chunk.pc \in {"idle", "ended"}
  /\ cruns < MaxChunks
  /\ cruns' = cruns + 1
  /\ ccalls' = <<>>
  /\ chunk' = IF Len(audio) = 0 \/ ~SttConfigured(vendors)
                THEN [ChunkIdle EXCEPT !.pc = "ended", !.run = cruns + 1, !.audio = audio,
                                       !.track = track, !.end = "nothing"]
                ELSE [ChunkIdle EXCEPT !.pc = "recognize", !.run = cruns + 1,
                                       !.audio = audio, !.track = track]
  /\ UNCHANGED <<fileagent, audioloop, endpoints, webhook, manager, vendors, pia, vcalls, files, runs, published>>

\* factory.go:284-292: Recognize, its error, the low-confidence gate.
ChunkRecognize ==
  /\ chunk.pc = "recognize"
  /\ \E transcript \in Transcripts, conf \in Confidences, failed \in BOOLEAN :
       /\ ccalls' = Append(ccalls, <<"Recognize", chunk.audio, failed>>)
       /\ chunk' = IF RecognizeAborts(failed)
                     THEN [chunk EXCEPT !.pc = "ended", !.end = "recognize"]
                     ELSE IF GatePasses(transcript, conf)
                            THEN [chunk EXCEPT !.pc = "generate", !.transcript = transcript,
                                               !.conf = conf]
                            ELSE [chunk EXCEPT !.pc = "ended", !.transcript = transcript,
                                               !.conf = conf, !.end = "gate"]
  /\ UNCHANGED <<fileagent, audioloop, endpoints, webhook, manager, vendors, pia, vcalls, files, runs, published, cruns>>

\* factory.go:296-306: Generate, or the echo when no llm is configured.
ChunkGenerate ==
  /\ chunk.pc = "generate"
  /\ IF vendors.llm
       THEN \E r \in Replies, failed \in BOOLEAN :
              /\ ccalls' = Append(ccalls, <<"Generate", chunk.transcript, failed>>)
              /\ chunk' = [chunk EXCEPT !.pc = "speak",
                             !.response = IF failed THEN ChunkFallback ELSE r]
       ELSE /\ chunk' = [chunk EXCEPT !.pc = "speak", !.response = Echo(chunk.transcript)]
            /\ UNCHANGED ccalls
  /\ UNCHANGED <<fileagent, audioloop, endpoints, webhook, manager, vendors, pia, vcalls, files, runs, published, cruns>>

\* factory.go:311-316: Speak when a tts and an audio track exist.
ChunkSpeak ==
  /\ chunk.pc = "speak"
  /\ IF vendors.tts /\ chunk.track
       THEN \E audioData \in AudioOuts, failed \in BOOLEAN :
              /\ ccalls' = Append(ccalls, <<"Speak", chunk.response, failed>>)
              /\ chunk' = IF SpeakAborts(failed)
                            THEN [chunk EXCEPT !.pc = "ended", !.end = "speak"]
                            ELSE [chunk EXCEPT !.pc = "publish", !.audioData = audioData]
       ELSE /\ chunk' = [chunk EXCEPT !.pc = "ended", !.end = "silent"]
            /\ UNCHANGED ccalls
  /\ UNCHANGED <<fileagent, audioloop, endpoints, webhook, manager, vendors, pia, vcalls, files, runs, published, cruns>>

\* factory.go:320-322 and 327-359 (publishAudio): the samples are written to
\* the audio track 3200 bytes at a time; a WriteSample error stops the
\* writing and is only logged.  Empty audio writes nothing.
ChunkPublish ==
  /\ chunk.pc = "publish"
  /\ \E complete \in BOOLEAN :
       published' = IF Len(chunk.audioData) = 0
                      THEN published
                      ELSE Append(published, [run |-> chunk.run, data |-> chunk.audioData,
                                              complete |-> complete])
  /\ chunk' = [chunk EXCEPT !.pc = "ended", !.end = "published"]
  /\ UNCHANGED <<fileagent, audioloop, endpoints, webhook, manager, vendors, pia, vcalls, files, runs, ccalls, cruns>>

PipelineInit ==
  /\ cfg = [url |-> TRUE, api_key |-> TRUE, api_secret |-> TRUE]
  /\ ManagerIdle
  /\ vendors \in [stt : BOOLEAN, llm : BOOLEAN, tts : BOOLEAN]
  /\ PipelineIdle
  /\ WebhookIdle
  /\ tokenSecret = ""
  /\ EndpointsIdle

PipelineNext ==
  \/ \E sessionID \in SessionIDs, audio \in AudioInputs : PiaBegin(sessionID, audio)
  \/ PiaRecognize
  \/ PiaGenerate
  \/ PiaSpeak
  \/ PiaReturn
  \/ \E audio \in AudioInputs, track \in BOOLEAN : ChunkBegin(audio, track)
  \/ ChunkRecognize
  \/ ChunkGenerate
  \/ ChunkSpeak
  \/ ChunkPublish

PipelineSpec == PipelineInit /\ [][PipelineNext]_vars

\* ----- RoomClient.handleAudioTrack (factory.go:235-271) -------------------
\* A Go slice is a view [arr, len] of an array; slices of one array share
\* its bytes.
Max(a, b) == IF a >= b THEN a ELSE b
Cap(arrs, buf) == Len(arrs[buf.arr])
Bytes(arrs, buf) == SubSeq(arrs[buf.arr], 1, buf.len)

\* The payloads of the RTP packets of the track.
Payloads == {<<1>>, <<2>>, <<2, 1>>}

\* append(buf, payload...): in place when the capacity suffices, otherwise
\* into a new array of the doubled capacity (or of the needed length when
\* that is more) holding a copy of the slice's bytes.
AppendArrays(arrs, buf, payload) ==
  LET need == buf.len + Len(payload)
      put(old, n) == [j \in 1..n |->
                        IF j <= buf.len THEN old[j]
                        ELSE IF j <= need THEN payload[j - buf.len]
                        ELSE IF j <= Len(old) THEN old[j] ELSE 0]
  IN IF need <= Cap(arrs, buf)
       THEN [arrs EXCEPT ![buf.arr] = put(@, Len(@))]
       ELSE Append(arrs, put(arrs[buf.arr], Max(2 * Cap(arrs, buf), need)))

AppendSlice(arrs, buf, payload) ==
  LET need == buf.len + Len(payload)
  IN IF need <= Cap(arrs, buf)
       THEN [buf EXCEPT !.len = need]
       ELSE [arr |-> Len(arrs) + 1, len |-> need]

\* The buffer left as it is after a flush.
Reslice0_Keep(buf) == buf

\* audioBuffer[:0] keeps the array.
Reslice0(buf) == [buf EXCEPT !.len = 0]

AudioFrame ==
  /\ ret' = NoRet
  /\ UNCHANGED <<endpoints, webhook, cfg, mu, registry, store, sp, stops, gpc, ctxDone, rc,
                 panicked, hist, vendors, pia, vcalls, files, runs, stream, fileagent>>

\* factory.go:254-268, the default case: ReadRTP, then
\* audioBuffer = append(audioBuffer, rtpPacket.Payload...).  An error other
\* than io.EOF is logged and the loop continues with nothing appended.
AudioReadRTP(payload, failed) ==
  /\ audioLoop = "running"
  /\ nframes < MaxFrames
  /\ nframes' = nframes + 1
  /\ inbound' = IF failed THEN inbound ELSE inbound \o payload
  /\ IF failed
       THEN UNCHANGED <<arrays, audioBuffer>>
       ELSE /\ arrays' = AppendArrays(arrays, audioBuffer, payload)
            /\ audioBuffer' = AppendSlice(arrays, audioBuffer, payload)
  /\ UNCHANGED <<flushed, audioLoop>>
  /\ AudioFrame

\* The runs started so far that have ended.
Ended(fl) == {i \in 1..Len(fl) : fl[i].ended # 0}

\* A tick flushing only when every earlier run has ended.
FlushReady_Serial(buf, fl) == buf.len > 0 /\ Ended(fl) = 1..Len(fl)

\* factory.go:250, if len(audioBuffer) > 0
FlushReady(buf, fl) == buf.len > 0

\* factory.go:248-253, case <-ticker.C with a non-empty buffer:
\* go rc.processAudioChunk(audioBuffer); audioBuffer = audioBuffer[:0].
\* (A tick that finds the buffer empty changes nothing.)
AudioFlush ==
  /\ audioLoop = "running"
  /\ FlushReady(audioBuffer, flushed)
  /\ Len(flushed) < MaxFlushes
  /\ flushed' = Append(flushed, [audio |-> audioBuffer,
                                  handed |-> Bytes(arrays, audioBuffer),
                                  read |-> <<>>, ended |-> 0])
  /\ audioBuffer' = Reslice0(audioBuffer)
  /\ UNCHANGED <<arrays, audioLoop, nframes, inbound>>
  /\ AudioFrame

\* factory.go:246-247 and 257-260: the loop returns when rc.ctx is done or
\* ReadRTP returns io.EOF.  The goroutines it started go on.
AudioLoopReturn ==
  /\ audioLoop = "running"
  /\ audioLoop' = "returned"
  /\ UNCHANGED <<arrays, audioBuffer, flushed, nframes, inbound>>
  /\ AudioFrame

\* factory.go:274-284, processAudioChunk(audio): rc.stt.Recognize(audio)
\* reads the bytes of the slice it was passed, one after the other, with no
\* synchronisation with the loop that goes on appending.
ChunkReadByte(i) ==
  /\ i \in 1..Len(flushed)
  /\ Len(flushed[i].read) < flushed[i].audio.len
  /\ flushed' = [flushed EXCEPT ![i].read =
                    Append(@, arrays[flushed[i].audio.arr][Len(@) + 1])]
  /\ UNCHANGED <<arrays, audioBuffer, audioLoop, nframes, inbound>>
  /\ AudioFrame

\* factory.go:286-323: the rest of the run, to its last output (the reply
\* published, or an early return).  ended is the run's place in the order in
\* which the runs end.
ChunkEnd(i) ==
  /\ i \in 1..Len(flushed)
  /\ Len(flushed[i].read) = flushed[i].audio.len
  /\ flushed[i].ended = 0
  /\ flushed' = [flushed EXCEPT ![i].ended = Cardinality(Ended(flushed)) + 1]
  /\ UNCHANGED <<arrays, audioBuffer, audioLoop, nframes, inbound>>
  /\ AudioFrame

AudioLoopNext ==
  \/ \E payload \in Payloads, failed \in BOOLEAN : AudioReadRTP(payload, failed)
  \/ AudioFlush
  \/ AudioLoopReturn
  \/ \E i \in 1..MaxFlushes : ChunkReadByte(i)
  \/ \E i \in 1..MaxFlushes : ChunkEnd(i)

AudioLoopSpec == PipelineInit /\ [][AudioLoopNext]_vars

\* ----- CallAgent.HandleAudioFile (backend/internal/agents/agent.go) -------
\* What a synthesizer produces for a text: the test's server answers
\* "WAVDATA:" followed by the text (agent_e2e_test.go:47-57); an answer may
\* also be empty.  The bytes are in the chunks a stream delivers them in.
Wav(text) == <<"WAVDATA:", text>>
SynthOuts(text) == {<<>>, Wav(text)}
Prefixes(audio) == {SubSeq(audio, 1, n) : n \in 0..Len(audio)}

HafFrame ==
  /\ ret' = NoRet
  /\ UNCHANGED <<endpoints, webhook, cfg, mu, registry, store, sp, stops, gpc, ctxDone, rc,
                 panicked, hist, vendors, pia, vcalls, files, runs, stream, audioloop>>

HafReturn(h, err) == [h EXCEPT !.pc = "returned", !.err = err]
HafCalled(h, call) == [h EXCEPT !.calls = Append(@, call)]

\* agent.go:29-32, os.ReadFile(inputPath)
HafBegin(readable) ==
  /\ haf.pc = "idle"
  /\ haf' = LET h == [haf EXCEPT !.before = outFile]
             IN IF readable THEN [h EXCEPT !.pc = "recognize"] ELSE HafReturn(h, "read")
  /\ UNCHANGED outFile
  /\ HafFrame

\* agent.go:34-38, c.stt.Recognize(data)
HafRecognize ==
  /\ haf.pc = "recognize"
  /\ \E transcript \in Transcripts, failed \in BOOLEAN :
       haf' = LET h == HafCalled(haf, <<"Recognize", "", failed>>)
              IN IF failed THEN HafReturn(h, "stt")
                 ELSE [h EXCEPT !.pc = "generate", !.transcript = transcript]
  /\ UNCHANGED outFile
  /\ HafFrame

\* agent.go:40-44, c.llm.Generate(transcript)
HafGenerate ==
  /\ haf.pc = "generate"
  /\ \E reply \in Replies, failed \in BOOLEAN :
       haf' = LET h == HafCalled(haf, <<"Generate", haf.transcript, failed>>)
              IN IF failed THEN HafReturn(h, "llm")
                 ELSE [h EXCEPT !.pc = "create", !.resp = reply]
  /\ UNCHANGED outFile
  /\ HafFrame

\* agent.go:47-51, os.Create(outputPath): the file exists and is empty.
HafCreate(ok) ==
  /\ haf.pc = "create"
  /\ IF ok
       THEN /\ outFile' = <<>>
            /\ haf' = [haf EXCEPT !.pc = "stream"]
       ELSE /\ UNCHANGED outFile
            /\ haf' = HafReturn(haf, "create")
  /\ HafFrame

\* agent.go:54, c.tts.SpeakStream(resp, outF): the synthesizer's answer is
\* copied to the file as it arrives (piper's io.Copy); a stream that fails
\* has delivered some prefix of it.
HafSpeakStream ==
  /\ haf.pc = "stream"
  /\ \E audio \in SynthOuts(haf.resp), failed \in BOOLEAN :
       \E got \in (IF failed THEN Prefixes(audio) ELSE {audio}) :
         /\ outFile' = outFile \o got
         /\ haf' = LET h == HafCalled(haf, <<"SpeakStream", haf.resp, failed>>)
                    IN IF failed THEN [h EXCEPT !.pc = "speak"] ELSE HafReturn(h, "nil")
  /\ HafFrame

\* agent.go:56-62, the fallback: c.tts.Speak(resp), then outF.Write(outAudio)
\* at the file's current offset.
HafSpeak(wrote) ==
  /\ haf.pc = "speak"
  /\ \E audio \in SynthOuts(haf.resp), failed \in BOOLEAN :
       LET h == HafCalled(haf, <<"Speak", haf.resp, failed>>)
       IN IF failed
            THEN /\ haf' = HafReturn(h, "tts")
                 /\ UNCHANGED outFile
          ELSE IF ~wrote
            THEN /\ haf' = HafReturn(h, "write")
                 /\ UNCHANGED outFile
          ELSE /\ haf' = HafReturn(h, "nil")
               /\ outFile' = outFile \o audio
  /\ HafFrame

FileAgentNext ==
  \/ \E readable \in BOOLEAN : HafBegin(readable)
  \/ HafRecognize
  \/ HafGenerate
  \/ \E ok \in BOOLEAN : HafCreate(ok)
  \/ HafSpeakStream
  \/ \E wrote \in BOOLEAN : HafSpeak(wrote)

\* The agent is called with an output path at which no file exists, or an
\* empty one (the test creates it first), or one left by an earlier run.
FileAgentInit ==
  /\ cfg = [url |-> TRUE, api_key |-> TRUE, api_secret |-> TRUE]
  /\ ManagerIdle
  /\ vendors = [stt |-> TRUE, llm |-> TRUE, tts |-> TRUE]
  /\ StreamsIdle
  /\ haf = HafIdle
  /\ outFile \in {NoFile, <<>>, Wav("earlier")}
  /\ WebhookIdle
  /\ tokenSecret = ""
  /\ EndpointsIdle

FileAgentSpec == FileAgentInit /\ [][FileAgentNext]_vars

\* ----- POST /calls and the LiveKit webhook (cmd/server/main.go) ----------
\* The sessions table holds the rows made by CreateSession (sessions) and the
\* rows made by CreateCall (callers): exactly one caller session per call,
\* so the caller rows are indexed by their call.  Ids are random and never
\* collide: the caller session of call c has the id CallerSID(c).
CallerSID(c) == MaxSessions + c
CallerSIDs == {CallerSID(c) : c \in CallIDs}
CallerCall(id) == id - MaxSessions
UnknownSID == MaxSessions + MaxCalls + 1   \* an identity no row has
UnknownCall == MaxCalls + 1                \* a room name no call has
Identities == {NoSession, UnknownSID} \cup SessionIDs \cup CallerSIDs
Rooms == {NoCall, UnknownCall} \cup CallIDs

CallExists(cal, callID) == callID \in CallIDs /\ cal[callID] # "none"
CallerExists(crs, id) == id \in CallerSIDs /\ crs[CallerCall(id)] # "none"

\* store.go:65-95, the two inserts of CreateCall in one transaction
\* (the second one as CreateCallerRow; first, the commit losing it)
CreateCallRow(cal, callID) == [cal EXCEPT ![callID] = "new"]
CreateCallerRow_Nothing(crs, callID) == crs
CreateCallerRow(crs, callID) == [crs EXCEPT ![callID] = "new"]

\* store.go:109-119 on a row made by CreateCall
UpdateCallerStatus(crs, id, status) ==
  IF CallerExists(crs, id) THEN [crs EXCEPT ![CallerCall(id)] = status] ELSE crs

\* The call update writing nothing.
UpdateCallStatus_Nothing(cal, callID, status) == cal

\* store.go:147-157, UPDATE calls SET status = ? WHERE id = ?
UpdateCallStatus(cal, callID, status) ==
  IF CallExists(cal, callID) THEN [cal EXCEPT ![callID] = status] ELSE cal

\* store.go:159-167: the call of the session row; NoCall stands for the error
FindSessionByIdentity(sess, crs, id) ==
  IF SessionExists(sess, id) THEN sess[id].call
  ELSE IF CallerExists(crs, id) THEN CallerCall(id)
  ELSE NoCall

\* main.go:238, 256: SELECT type FROM sessions WHERE id = ?
SessionType(sess, crs, id) ==
  IF SessionExists(sess, id) THEN sess[id].type
  ELSE IF CallerExists(crs, id) THEN "caller"
  ELSE ""

\* The role test letting every session through.
IsCaller_Any(sessionType) == TRUE

\* main.go:239, 257: the role test that guards SpawnAgent and StopAgent
IsCaller(sessionType) == sessionType = "caller"

\* main.go:193-195: HMAC-SHA256 of the body under the key.
HMAC(key, body) == <<key, body>>

\* main.go:198, 203: the hex and the base64 text of a MAC; "raw" is any
\* other rendering of it.
HexEncode(mac) == <<"hex", mac>>
Base64Encode(mac) == <<"base64", mac>>

NoSig == <<>>            \* "", no signature header
Secret == "secret"       \* the configured api_secret, when there is one

\* The signature check accepting every request.
SignatureOK_Always(c, sig, body) == TRUE

\* main.go:180-210: the signature check, skipped when no secret is set.
SignatureOK(c, sig, body) ==
  \/ ~c.api_secret
  \/ /\ sig # NoSig
     /\ \/ sig = HexEncode(HMAC(Secret, body))
        \/ sig = Base64Encode(HMAC(Secret, body))

ParticipantEvents == {"participant_joined", "participant_left"}
RoomEvents == {"room_ended", "room_disconnected"}
OtherEvents == {"track_published"}

\* The raw body of a request: whether it is JSON, and the event's type,
\* participant identity and room name.
Body(wellformed, t, identity, room) ==
  [wellformed |-> wellformed, type |-> t, identity |-> identity, room |-> room]

\* What a sender can put in the signature header of a request with this
\* body: nothing, the hex or base64 MAC of the body under the secret, the
\* MAC in another rendering, under another key, or of another body.
Signature(kind, body) ==
  CASE kind = "missing" -> NoSig
    [] kind = "hex" -> HexEncode(HMAC(Secret, body))
    [] kind = "base64" -> Base64Encode(HMAC(Secret, body))
    [] kind = "raw" -> <<"raw", HMAC(Secret, body)>>
    [] kind = "wrongkey" -> HexEncode(HMAC("other", body))
    [] kind = "replayed" -> Base64Encode(HMAC(Secret, Body(TRUE, "replayed", NoSession, NoCall)))

Signatures == {"missing", "hex", "base64", "raw", "wrongkey", "replayed"}

\* A webhook request: method, signature header and body.
Request(method, kind, wellformed, t, identity, room) ==
  [method |-> method,
   sig |-> Signature(kind, Body(wellformed, t, identity, room)),
   body |-> Body(wellformed, t, identity, room)]

\* The requests that differ in what the handler does with them.
Requests ==
  {Request("GET", kind, TRUE, "", NoSession, NoCall) : kind \in {"hex", "missing"}}
  \cup {Request("POST", kind, TRUE, t, NoSession, NoCall) :
          kind \in Signatures, t \in OtherEvents}
  \cup {Request("POST", kind, FALSE, "", NoSession, NoCall) :
          kind \in {"hex", "missing"}}
  \cup {Request("POST", "wrongkey", TRUE, "room_ended", NoSession, room) :
          room \in CallIDs}
  \cup {Request("POST", "hex", TRUE, t, identity, NoCall) :
          t \in OtherEvents, identity \in CallerSIDs}
  \cup {Request("POST", "hex", TRUE, t, identity, NoCall) :
          t \in ParticipantEvents, identity \in Identities}
  \cup {Request("POST", "base64", TRUE, t, NoSession, room) :
          t \in RoomEvents, room \in Rooms}

\* main.go:93-130, POST /calls: CreateCall with the given or a generated
\* caller id, then token issuance for the response; the rows stay when
\* issuance fails.  genID draws an id no row has.
PostCalls(callID) ==
  /\ ~CallExists(calls, callID)
  /\ \A c \in CallIDs : c < callID => CallExists(calls, c)
  /\ callID <= MaxPosts
  /\ calls' = CreateCallRow(calls, callID)
  /\ callers' = CreateCallerRow(callers, callID)
  /\ ret' = NoRet
  /\ UNCHANGED <<wh, leftSeen, endpoints, pipeline, cfg, mu, registry, sessions, sp, stops, gpc, ctxDone, rc,
                 panicked, hist>>

\* What a handler step leaves alone besides the store and the manager.
WhFrame == UNCHANGED <<endpoints, pipeline, cfg, mu, registry, sp, stops, gpc, ctxDone, rc,
                       panicked, hist>>

\* main.go:283, w.WriteHeader(http.StatusNoContent), is what is left to do.
ToRespond(w) == [w EXCEPT !.pc = "respond", !.code = 204]

\* The switch with its default case handling the event as a join.
Dispatch_JoinDefault(t, identity, room) ==
  CASE t = "participant_left" /\ identity # NoSession -> "left_mark"
    [] t \in RoomEvents /\ room # NoCall -> "room_call"
    [] t \notin RoomEvents \cup {"participant_left"} /\ identity # NoSession -> "join_mark"
    [] OTHER -> "respond"

\* main.go:227-282, the switch: where the handler goes for an event.
Dispatch(t, identity, room) ==
  CASE t = "participant_joined" /\ identity # NoSession -> "join_mark"
    [] t = "participant_left" /\ identity # NoSession -> "left_mark"
    [] t \in RoomEvents /\ room # NoCall -> "room_call"
    [] OTHER -> "respond"

\* The call an event is about to end, if any.
EndingCall(sess, crs, req) ==
  IF req.type = "participant_left"
    THEN {FindSessionByIdentity(sess, crs, req.identity)} \ {NoCall}
  ELSE IF req.type \in RoomEvents THEN {req.room} \cap CallIDs
  ELSE {}

\* main.go:166-227: method, body, signature, JSON, type and identity, the
\* switch.  An identity or room name in an event is one LiveKit was given, or
\* one no row has.  overlap records that another request was in progress
\* while this one was.
WhReceive(h, req) ==
  /\ wh[h].pc = "idle"
  /\ req.body.identity \in {NoSession, UnknownSID}
       \/ SessionExists(sessions, req.body.identity)
       \/ CallerExists(callers, req.body.identity)
  /\ req.body.room \in {NoCall, UnknownCall} \/ CallExists(calls, req.body.room)
  /\ LET busy == \E o \in DOMAIN wh \ {h} : wh[o].pc # "idle"
         start == [WhIdle EXCEPT !.overlap = busy, !.method = req.method,
                                 !.sig = req.sig, !.body = req.body]
         accepted == /\ req.method = "POST"
                     /\ SignatureOK(cfg, req.sig, req.body)
                     /\ req.body.wellformed
         mine ==
           IF req.method # "POST" THEN [start EXCEPT !.pc = "respond", !.code = 405]
           ELSE IF ~SignatureOK(cfg, req.sig, req.body)
             THEN [start EXCEPT !.pc = "respond", !.code = 401]
           ELSE IF ~req.body.wellformed THEN [start EXCEPT !.pc = "respond", !.code = 400]
           ELSE LET w == [start EXCEPT !.type = req.body.type,
                                       !.identity = req.body.identity,
                                       !.room = req.body.room]
                    pc == Dispatch(req.body.type, req.body.identity, req.body.room)
                IN IF pc = "respond" THEN ToRespond(w) ELSE [w EXCEPT !.pc = pc]
     IN /\ wh' = [o \in DOMAIN wh |->
                   IF o = h THEN mine
                   ELSE IF wh[o].pc # "idle" THEN [wh[o] EXCEPT !.overlap = TRUE]
                   ELSE wh[o]]
        /\ leftSeen' = IF accepted
                         THEN leftSeen \cup EndingCall(sessions, callers, req.body)
                         ELSE leftSeen
  /\ ret' = NoRet
  /\ UNCHANGED <<store, callers>>
  /\ WhFrame

\* main.go:231: UpdateSessionStatus(identity, "active"), its error dropped
WhJoinMark(h) ==
  /\ wh[h].pc = "join_mark"
  /\ sessions' = UpdateSessionStatus(sessions, wh[h].identity, "active")
  /\ callers' = UpdateCallerStatus(callers, wh[h].identity, "active")
  /\ UNCHANGED leftSeen
  /\ wh' = [wh EXCEPT ![h].pc = "join_find"]
  /\ ret' = NoRet
  /\ UNCHANGED calls
  /\ WhFrame

\* main.go:233: FindSessionByIdentity(identity)
WhJoinFind(h) ==
  /\ wh[h].pc = "join_find"
  /\ UNCHANGED leftSeen
  /\ LET callID == FindSessionByIdentity(sessions, callers, wh[h].identity)
     IN wh' = [wh EXCEPT ![h].call = callID,
                         ![h].pc = IF callID = NoCall THEN "respond" ELSE "join_call",
                         ![h].code = IF callID = NoCall THEN 204 ELSE 0]
  /\ ret' = NoRet
  /\ UNCHANGED <<store, callers>>
  /\ WhFrame

\* main.go:234-239: UpdateCallStatus(callID, "active"), then the role query
WhJoinCall(h) ==
  /\ wh[h].pc = "join_call"
  /\ calls' = UpdateCallStatus(calls, wh[h].call, "active")
  /\ UNCHANGED leftSeen
  /\ wh' = [wh EXCEPT ![h] =
              IF IsCaller(SessionType(sessions, callers, wh[h].identity))
                THEN [@ EXCEPT !.pc = "join_spawn"] ELSE ToRespond(@)]
  /\ ret' = NoRet
  /\ UNCHANGED <<sessions, callers>>
  /\ WhFrame

\* main.go:241: mgr.SpawnAgent(callID), up to its first return or CreateSession
WhJoinSpawn(h) ==
  /\ wh[h].pc = "join_spawn"
  /\ SpawnAgentCall(wh[h].call)
  /\ UNCHANGED leftSeen
  /\ wh' = [wh EXCEPT ![h] =
              IF AgentExists(agents, wh[h].call)
                THEN ToRespond([@ EXCEPT !.spawn = "exists"])
                ELSE [@ EXCEPT !.spawn = "called", !.key = NewSessionID(sessions),
                               !.pc = "in_spawn"]]
  /\ UNCHANGED callers

\* main.go:241-246: SpawnAgent has returned; its error is logged
WhSpawnReturned(h) ==
  /\ wh[h].pc = "in_spawn"
  /\ ~(sp.pc # "idle" /\ sp.sid = wh[h].key)
  /\ UNCHANGED leftSeen
  /\ wh' = [wh EXCEPT ![h] = ToRespond(@)]
  /\ ret' = NoRet
  /\ UNCHANGED <<store, callers>>
  /\ WhFrame

\* main.go:252: UpdateSessionStatus(identity, "ended"), its error dropped
WhLeftMark(h) ==
  /\ wh[h].pc = "left_mark"
  /\ sessions' = UpdateSessionStatus(sessions, wh[h].identity, "ended")
  /\ callers' = UpdateCallerStatus(callers, wh[h].identity, "ended")
  /\ UNCHANGED leftSeen
  /\ wh' = [wh EXCEPT ![h].pc = "left_find"]
  /\ ret' = NoRet
  /\ UNCHANGED calls
  /\ WhFrame

\* main.go:253-257: FindSessionByIdentity(identity), then the role query
WhLeftFind(h) ==
  /\ wh[h].pc = "left_find"
  /\ UNCHANGED leftSeen
  /\ LET callID == FindSessionByIdentity(sessions, callers, wh[h].identity)
     IN wh' = [wh EXCEPT ![h] =
                 IF callID # NoCall
                    /\ IsCaller(SessionType(sessions, callers, wh[h].identity))
                   THEN [@ EXCEPT !.call = callID, !.pc = "left_stop"]
                   ELSE ToRespond([@ EXCEPT !.call = callID])]
  /\ ret' = NoRet
  /\ UNCHANGED <<store, callers>>
  /\ WhFrame

\* The call a handler stops: the caller's call, or the room named.
WhStopCall(h) == IF wh[h].type = "participant_left" THEN wh[h].call ELSE wh[h].room

\* main.go:259, 273: mgr.StopAgent, up to its no-agent return or its Unlock
WhStop(h) ==
  /\ wh[h].pc \in {"left_stop", "room_stop"}
  /\ StopAgentCall(WhStopCall(h))
  /\ UNCHANGED leftSeen
  /\ wh' = [wh EXCEPT ![h] =
              IF StopOk(cancels, WhStopCall(h))
                THEN [@ EXCEPT !.stop = "called", !.key = MapGet(cancels, WhStopCall(h)),
                               !.pc = "in_stop"]
                ELSE IF wh[h].pc = "left_stop"
                       THEN [@ EXCEPT !.stop = "noagent", !.pc = "left_call"]
                       ELSE ToRespond([@ EXCEPT !.stop = "noagent"])]
  /\ UNCHANGED callers

\* main.go:259-261, 273-275: StopAgent has returned nil, or its panic has
\* ended the handler's goroutine with no response written.
WhStopReturned(h) ==
  /\ wh[h].pc = "in_stop"
  /\ stops[wh[h].key].pc \in {"done", "panic"}
  /\ UNCHANGED leftSeen
  /\ wh' = [wh EXCEPT ![h] =
              IF stops[wh[h].key].pc = "panic" THEN WhIdle
              ELSE IF wh[h].type = "participant_left"
                     THEN [@ EXCEPT !.pc = "left_call"] ELSE ToRespond(@)]
  /\ ret' = NoRet
  /\ UNCHANGED <<store, callers>>
  /\ WhFrame

\* main.go:262: UpdateCallStatus(callID, "ended")
WhLeftCall(h) ==
  /\ wh[h].pc = "left_call"
  /\ calls' = UpdateCallStatus(calls, wh[h].call, "ended")
  /\ UNCHANGED leftSeen
  /\ wh' = [wh EXCEPT ![h] = ToRespond(@)]
  /\ ret' = NoRet
  /\ UNCHANGED <<sessions, callers>>
  /\ WhFrame

\* main.go:271: UpdateCallStatus(roomName, "ended")
WhRoomCall(h) ==
  /\ wh[h].pc = "room_call"
  /\ calls' = UpdateCallStatus(calls, wh[h].room, "ended")
  /\ UNCHANGED leftSeen
  /\ wh' = [wh EXCEPT ![h].pc = "room_stop"]
  /\ ret' = NoRet
  /\ UNCHANGED <<sessions, callers>>
  /\ WhFrame

\* The response is written (main.go:168, 190, 205, 214, 283) and the
\* handler returns.
WhRespond(h) ==
  /\ wh[h].pc = "respond"
  /\ UNCHANGED leftSeen
  /\ wh' = [wh EXCEPT ![h] = WhIdle]
  /\ ret' = NoRet
  /\ UNCHANGED <<store, callers>>
  /\ WhFrame

\* SpawnAgent and StopAgent are called by the webhook handlers only.
WebhookNext ==
  \/ \E c \in CallIDs : PostCalls(c)
  \/ \E h \in Handlers, req \in Requests : WhReceive(h, req)
  \/ \E h \in Handlers : WhJoinMark(h)
  \/ \E h \in Handlers : WhJoinFind(h)
  \/ \E h \in Handlers : WhJoinCall(h)
  \/ \E h \in Handlers : WhJoinSpawn(h)
  \/ \E h \in Handlers : WhSpawnReturned(h)
  \/ \E h \in Handlers : WhLeftMark(h)
  \/ \E h \in Handlers : WhLeftFind(h)
  \/ \E h \in Handlers : WhStop(h)
  \/ \E h \in Handlers : WhStopReturned(h)
  \/ \E h \in Handlers : WhLeftCall(h)
  \/ \E h \in Handlers : WhRoomCall(h)
  \/ \E h \in Handlers : WhRespond(h)
  \/ SpawnToken
  \/ SpawnActive
  \/ SpawnRegister
  \/ SpawnReturn
  \/ \E k \in StopKeys : StopCancel(k)
  \/ \E k \in StopKeys : StopDisconnect(k)
  \/ \E k \in StopKeys : StopMark(k)
  \/ \E s \in SessionIDs : ConnectDial(s)
  \/ \E s \in SessionIDs : ConnectPeer(s)
  \/ \E s \in SessionIDs : HandleMessagesReturn(s)
  \/ \E s \in SessionIDs : CleanupRemove(s)
  \/ \E s \in SessionIDs : CleanupMark(s)
  \/ \E s \in SessionIDs : RunDisconnect(s)
  \/ \E s \in SessionIDs : RunMark(s)

WebhookSpec == Init /\ [][WebhookNext]_vars

\* The events of a call's life, as LiveKit signs and sends them.
CallEvents ==
  {req \in Requests :
     /\ req.method = "POST" /\ req.body.wellformed
     /\ SignatureOK(cfg, req.sig, req.body)
     /\ req.body.type \in ParticipantEvents \cup {"room_ended"}
     /\ req.body.identity \in CallerSIDs \cup {NoSession}}

\* net/http serves each request in a goroutine of its own.
OverlapHandlers == 1..MaxOverlap

\* A configured server on which the events of a call may arrive together.
OverlapInit ==
  /\ cfg = [url |-> TRUE, api_key |-> TRUE, api_secret |-> TRUE]
  /\ ManagerIdle
  /\ vendors = [stt |-> FALSE, llm |-> FALSE, tts |-> FALSE]
  /\ PipelineIdle
  /\ callers = [c \in CallIDs |-> "none"]
  /\ wh = [h \in OverlapHandlers |-> WhIdle]
  /\ leftSeen = {}
  /\ tokenSecret = ""
  /\ EndpointsIdle

\* main.go:166-283 served for several requests at once, with the manager's
\* calls they make; the agents' goroutines are not scheduled meanwhile.
OverlapNext ==
  \/ \E c \in CallIDs : PostCalls(c)
  \/ \E h \in OverlapHandlers, req \in CallEvents : WhReceive(h, req)
  \/ \E h \in OverlapHandlers : WhJoinMark(h)
  \/ \E h \in OverlapHandlers : WhJoinFind(h)
  \/ \E h \in OverlapHandlers : WhJoinCall(h)
  \/ \E h \in OverlapHandlers : WhJoinSpawn(h)
  \/ \E h \in OverlapHandlers : WhSpawnReturned(h)
  \/ \E h \in OverlapHandlers : WhLeftMark(h)
  \/ \E h \in OverlapHandlers : WhLeftFind(h)
  \/ \E h \in OverlapHandlers : WhStop(h)
  \/ \E h \in OverlapHandlers : WhStopReturned(h)
  \/ \E h \in OverlapHandlers : WhLeftCall(h)
  \/ \E h \in OverlapHandlers : WhRoomCall(h)
  \/ \E h \in OverlapHandlers : WhRespond(h)
  \/ SpawnToken
  \/ SpawnActive
  \/ SpawnRegister
  \/ SpawnReturn
  \/ \E k \in StopKeys : StopCancel(k)
  \/ \E k \in StopKeys : StopDisconnect(k)
  \/ \E k \in StopKeys : StopMark(k)

OverlapSpec == OverlapInit /\ [][OverlapNext]_vars

\* ----- the sessions endpoint and the store's own operations ---------------
\* store.go:137-139: Scan fails with sql.ErrNoRows when no row has the id.
GetSessionTokenErr(sess, crs, sid) == ~SessionExists(sess, sid) /\ ~CallerExists(crs, sid)

\* The lookup never reporting a missing row.
TokenStatus_NoError(err, token) == IF token = NoToken THEN 404 ELSE 200

\* main.go:344-355: the status for what GetSessionToken returned
TokenStatus(err, token) ==
  IF err THEN 500 ELSE IF token = NoToken THEN 404 ELSE 200

\* strings.HasPrefix / strings.TrimPrefix on a header given as its parts
HasPrefix(header, prefix) == Len(header) >= 1 /\ header[1] = prefix
TrimPrefix(header, prefix) == IF HasPrefix(header, prefix) THEN Tail(header) ELSE header

\* The check letting every request through.
Authorized_Always(secret, auth, xauth) == TRUE

\* main.go:326-342: the optional shared-secret check
Authorized(secret, auth, xauth) ==
  \/ secret = ""
  \/ HasPrefix(auth, "Bearer ") /\ TrimPrefix(auth, "Bearer ") = <<secret>>
  \/ xauth = secret

\* The Authorization and X-Agent-Auth headers a client may send: none, the
\* secret as Bearer value, another Bearer value, the secret without the
\* Bearer prefix or under another scheme, the secret or something else in
\* X-Agent-Auth, alone or next to a wrong Bearer value.
Credentials ==
  {<<auth, "">> : auth \in {<<>>, <<"Bearer ", "secret">>, <<"Bearer ", "wrong">>,
                            <<"secret">>, <<"Basic ", "secret">>}}
  \cup {<<<<>>, "secret">>, <<<<>>, "wrong">>, <<<<"Bearer ", "wrong">>, "secret">>}
TokenStrings == {<<>>, <<1>>, <<2, 1>>}

\* What an endpoint or store step leaves alone.
EpFrame == UNCHANGED <<wh, leftSeen, tokenSecret, pipeline, cfg, mu, registry, sp, stops,
                       gpc, ctxDone, rc, panicked, hist>>

\* main.go:318-355, GET /sessions/{id}/token
SessionsToken(id, auth, xauth) ==
  /\ LET err == GetSessionTokenErr(sessions, callers, id)
         token == GetSessionToken(sessions, id)
         code == TokenStatus(err, token)
     IN resp' = IF ~Authorized(tokenSecret, auth, xauth)
                  THEN [NoResp EXCEPT !.op = "token", !.id = id, !.code = 401,
                                      !.auth = auth, !.xauth = xauth]
                  ELSE [NoResp EXCEPT !.op = "token", !.id = id, !.code = code,
                                      !.token = IF code = 200 THEN token ELSE NoToken,
                                      !.read = TRUE, !.auth = auth, !.xauth = xauth]
  /\ ret' = NoRet
  /\ UNCHANGED <<store, callers, tx, written>>
  /\ EpFrame

\* store.go:97-107, Store.CreateSession called on its own
StoreCreateSession(callID, typ) ==
  /\ Len(sessions) < MaxSessions
  /\ sessions' = CreateSession(sessions, callID, "user", typ, "new")
  /\ ret' = Returned("CreateSession", callID, "nil", NewSessionID(sessions), NoToken)
  /\ resp' = NoResp
  /\ UNCHANGED <<calls, callers, tx, written>>
  /\ EpFrame

\* store.go:121-132, Store.UpdateSessionToken called on its own
StoreUpdateSessionToken(sid, token) ==
  /\ sessions' = UpdateSessionToken(sessions, sid, token)
  /\ ret' = Returned("UpdateSessionToken", NoCall,
                     IF SessionExists(sessions, sid) THEN "nil" ELSE "notfound", sid, token)
  /\ written' = IF SessionExists(sessions, sid)
                  THEN [written EXCEPT ![sid] = token] ELSE written
  /\ resp' = NoResp
  /\ UNCHANGED <<calls, callers, tx>>
  /\ EpFrame

\* store.go:134-145, Store.GetSessionToken called on its own
StoreGetSessionToken(sid) ==
  /\ ret' = Returned("GetSessionToken", NoCall,
                     IF GetSessionTokenErr(sessions, callers, sid) THEN "norows" ELSE "nil",
                     sid, GetSessionToken(sessions, sid))
  /\ resp' = NoResp
  /\ UNCHANGED <<store, callers, tx, written>>
  /\ EpFrame

\* store.go:65-81: the caller id check, the two ids, DB.Begin.  genID draws
\* an id no row has.
CreateCallBegin(callerID, ok) ==
  /\ tx.pc = "idle"
  /\ IF callerID = ""
       THEN /\ ret' = Returned("CreateCall", NoCall, "caller_id required", NoSession, NoToken)
            /\ UNCHANGED tx
       ELSE \E callID \in CallIDs :
              /\ ~CallExists(calls, callID)
              /\ \A c \in CallIDs : c < callID => CallExists(calls, c)
              /\ IF ok
                   THEN /\ tx' = [NoTx EXCEPT !.pc = "insert_call", !.call = callID,
                                              !.callerID = callerID]
                        /\ ret' = NoRet
                   ELSE /\ ret' = Returned("CreateCall", NoCall, "begin", NoSession, NoToken)
                        /\ UNCHANGED tx
  /\ resp' = NoResp
  /\ UNCHANGED <<store, callers, written>>
  /\ EpFrame

\* store.go:83-86: INSERT INTO calls inside the transaction, Rollback on error
CreateCallInsertCall(ok) ==
  /\ tx.pc = "insert_call"
  /\ IF ok
       THEN /\ tx' = [tx EXCEPT !.pc = "insert_session", !.rows = @ \cup {"call"}]
            /\ ret' = NoRet
       ELSE /\ tx' = NoTx
            /\ ret' = Returned("CreateCall", NoCall, "insert", NoSession, NoToken)
  /\ resp' = NoResp
  /\ UNCHANGED <<store, callers, written>>
  /\ EpFrame

\* store.go:87-90: INSERT INTO sessions inside the transaction, Rollback on error
CreateCallInsertSession(ok) ==
  /\ tx.pc = "insert_session"
  /\ IF ok
       THEN /\ tx' = [tx EXCEPT !.pc = "commit", !.rows = @ \cup {"session"}]
            /\ ret' = NoRet
       ELSE /\ tx' = NoTx
            /\ ret' = Returned("CreateCall", NoCall, "insert", NoSession, NoToken)
  /\ resp' = NoResp
  /\ UNCHANGED <<store, callers, written>>
  /\ EpFrame

\* store.go:91-94: Commit makes the transaction's rows visible together, or
\* fails and leaves none.
CreateCallCommit(ok) ==
  /\ tx.pc = "commit"
  /\ IF ok
       THEN /\ calls' = IF "call" \in tx.rows THEN CreateCallRow(calls, tx.call) ELSE calls
            /\ callers' = IF "session" \in tx.rows
                            THEN CreateCallerRow(callers, tx.call) ELSE callers
            /\ ret' = Returned("CreateCall", tx.call, "nil", CallerSID(tx.call), NoToken)
       ELSE /\ ret' = Returned("CreateCall", NoCall, "commit", NoSession, NoToken)
            /\ UNCHANGED <<calls, callers>>
  /\ tx' = NoTx
  /\ resp' = NoResp
  /\ UNCHANGED <<sessions, written>>
  /\ EpFrame

EndpointInit ==
  /\ cfg = [url |-> TRUE, api_key |-> TRUE, api_secret |-> TRUE]
  /\ ManagerIdle
  /\ vendors = [stt |-> FALSE, llm |-> FALSE, tts |-> FALSE]
  /\ PipelineIdle
  /\ WebhookIdle
  /\ tokenSecret \in {"", "secret"}
  /\ EndpointsIdle

EndpointNext ==
  \/ \E id \in {UnknownSID} \cup SessionIDs \cup CallerSIDs, cred \in Credentials :
       SessionsToken(id, cred[1], cred[2])
  \/ \E c \in CallIDs : StoreCreateSession(c, "agent")
  \/ \E sid \in SessionIDs, token \in TokenStrings : StoreUpdateSessionToken(sid, token)
  \/ \E sid \in {UnknownSID} \cup SessionIDs : StoreGetSessionToken(sid)
  \/ \E callerID \in {"", "external-caller"}, ok \in BOOLEAN : CreateCallBegin(callerID, ok)
  \/ \E ok \in BOOLEAN : CreateCallInsertCall(ok)
  \/ \E ok \in BOOLEAN : CreateCallInsertSession(ok)
  \/ \E ok \in BOOLEAN : CreateCallCommit(ok)

EndpointSpec == EndpointInit /\ [][EndpointNext]_vars

TypeOK ==
  /\ mu \in BOOLEAN
  /\ DOMAIN agents \subseteq CallIDs
  /\ Len(sessions) <= MaxSessions
  /\ panicked \in BOOLEAN


\* ----- claims -----------------------------------------------------------
Registered(s) == \E c \in DOMAIN agents : agents[c] = s

\* C1: whenever the manager mutex is free, the maps agents, clients and
\* cancels have the same key set, and the session id, room client and cancel
\* function registered for a call belong to the same agent: the registry
\* holds zero or one complete handle per call.
C1_HandleComplete ==
  ~mu => /\ DOMAIN agents = DOMAIN clients
         /\ DOMAIN clients = DOMAIN cancels
         /\ \A c \in DOMAIN agents : clients[c] = agents[c] /\ cancels[c] = agents[c]

\* One agent's handle has been removed by the cleanup and another by
\* StopAgent, or one removed while another is registered, with the mutex free.
C1_Witness ==
  /\ ~mu
  /\ \E s1, s2 \in SessionIDs :
       /\ s1 # s2
       /\ <<"cleanup", s1>> \in removedBy[s1]
       /\ Registered(s2) \/ <<"stop", NoSession>> \in removedBy[s2]

\* ----- vocabulary of the claims ----------------------------------------
\* The agent session rows of a call.
AgentSessions(c) ==
  {s \in 1..Len(sessions) : sessions[s].call = c /\ sessions[s].type = "agent"}

\* The persisted status of session s, "none" when there is no such row.
SessionStatus(s) == IF SessionExists(sessions, s) THEN sessions[s].status ELSE "none"

\* Token issuance is configured: signaling URL, API key and API secret.
CfgOK == cfg.url /\ cfg.api_key /\ cfg.api_secret

\* Connect has returned nil for the agent's room client and neither the
\* websocket nor the peer connection has been closed since.
Connected(s) == gpc[s] = "wait" /\ rc[s].conn = "open" /\ rc[s].pc = "open"

\* C2 (as amended): with token issuance configured, once a SpawnAgent for a
\* call has returned and the handle has not been removed since, exactly one
\* SpawnAgent has succeeded; the handle is that agent's, its stored token is
\* the one returned, no later session row exists for the call, and any other
\* SpawnAgent return for the call is the agent-already-exists error.
SpawnOnce(c) ==
  attempted[c] =>
    /\ okSince[c] = 1
    /\ AgentExists(agents, c)
    /\ LET s == agents[c]
       IN /\ clients[c] = s /\ cancels[c] = s
          /\ issued[s] # NoToken
          /\ \A s2 \in AgentSessions(c) : s2 <= s
    /\ (ret.op = "spawn" /\ ret.call = c /\ ret.err # "nil") => ret.err = "exists"

C2_SpawnOnceConfigured == CfgOK => \A c \in CallIDs : SpawnOnce(c)

\* C2 as stated, for every configuration.
C2_Original == \A c \in CallIDs : SpawnOnce(c)

\* A SpawnAgent has just returned agent-already-exists for a call whose one
\* agent is registered.
C2_Witness ==
  /\ CfgOK
  /\ ret.op = "spawn" /\ ret.err = "exists"
  /\ okSince[ret.call] = 1
  /\ AgentExists(agents, ret.call)

\* A SpawnAgent for the call of stop task k has started since k's critical
\* section: it found no handle and created a session row, newer than the
\* agent k removed.
SpawnSince(k) ==
  \E s \in 1..Len(sessions) : s > stops[k].sid /\ sessions[s].call = stops[k].call

\* A StopAgent for call c has returned nil and no SpawnAgent for c has
\* started since that StopAgent's critical section.
StoppedNil(c) ==
  \E k \in SessionIDs : stops[k].pc = "done" /\ stops[k].call = c /\ ~SpawnSince(k)

\* A StopAgent for call c has just returned, nil or the no-agent error, and
\* no SpawnAgent for c has started since its critical section.
JustStopped(c) ==
  /\ ret.op = "stop" /\ ret.call = c
  /\ ret.err = "nil" => StoppedNil(c)

\* C3 as stated: when a StopAgent for a call has returned (nil or no-agent)
\* with no SpawnAgent for the call since, the registry holds no handle for
\* the call and every agent session row of the call is "ended".
C3_Original ==
  \A c \in CallIDs :
    JustStopped(c) => /\ ~AgentExists(agents, c)
                      /\ \A s \in AgentSessions(c) : sessions[s].status = "ended"

\* C4: a StopAgent that starts after a StopAgent for the same call returned
\* nil, with no SpawnAgent for the call in between, returns the no-agent
\* error and changes neither the registry nor the store; a StopAgent that
\* finds a cancel function finds a non-nil one, and nothing panics.
C4_SecondStop ==
  /\ [](~panicked /\ stops[NoSession].pc = "none")
  /\ [][\A c \in CallIDs :
          (StoppedNil(c) /\ StopBegin(c)) =>
             /\ ret' = Returned("stop", c, "noagent", NoSession, NoToken)
             /\ UNCHANGED <<registry, store, stops, rc, ctxDone>>]_vars

\* The second StopAgent has just returned no-agent; the first one, for the
\* same call, had returned nil before and no agent was spawned since.
C4_Witness ==
  /\ ret.op = "stop" /\ ret.err = "noagent"
  /\ StoppedNil(ret.call)

\* C5 as stated: outside the registry's critical sections an agent session
\* is "active" exactly while its handle is registered and its room client
\* is connected, and is "ended" once its handle has been removed.
C5_Original ==
  ~mu => \A s \in 1..Len(sessions) :
           /\ sessions[s].status = "active" <=> (Registered(s) /\ Connected(s))
           /\ removedBy[s] # {} => sessions[s].status = "ended"

\* C6 as stated: per call at most one agent session is "active" and at most
\* one agent room client is connected.
C6_Original ==
  \A c \in CallIDs :
    /\ Cardinality({s \in AgentSessions(c) : sessions[s].status = "active"}) <= 1
    /\ Cardinality({s \in AgentSessions(c) : Connected(s)}) <= 1

\* The StopAgent invocation that took agent s's handle has not returned.
StopInFlight(s) == stops[s].pc \in {"cancel", "disconnect", "mark"}

\* A StopAgent for the call of agent s has just looked the call up and
\* returned the no-agent error.
StopMissed(s) == ret.op = "stop" /\ ret.err = "noagent" /\ ret.call = SessionCall(s)

\* C7 as stated: while a StopAgent for the call overlaps the connect-failure
\* cleanup of agent s (the cleanup is past its critical section and has not
\* finished), nothing has panicked, the handle of s is absent, and exactly
\* one of the two found the handle of s present and removed it.
C7_Original ==
  /\ ~panicked
  /\ \A s \in SessionIDs :
       (gpc[s] = "clean_mark" /\ (StopInFlight(s) \/ StopMissed(s))) =>
          /\ ~Registered(s)
          /\ removedBy[s] \in {{<<"stop", NoSession>>}, {<<"cleanup", s>>}}

\* Connect has failed for agent s: its goroutine is in, or through, the cleanup.
ConnectFailed(s) == gpc[s] \in FailedSteps

\* The SpawnAgent that created agent s has returned (sessionID, token, nil).
SpawnReturnedNil(s) == issued[s] # NoToken /\ issued[s] = GenerateAccessToken(SessionCall(s), s)

\* C8: SpawnAgent returns (sessionID, token, nil) whatever Connect does and
\* without waiting for it; a Connect failure is never returned, is followed
\* by no reconnect and by no new session row, and leads to a state from which
\* the agent's handle stays absent and its session stays "ended".
C8_ConnectFailure ==
  /\ [](\A s \in SessionIDs :
          /\ (sp.pc = "return" /\ sp.sid = s) => ENABLED SpawnReturn
          /\ (gpc[s] # "none" /\ sp.sid # s) => SpawnReturnedNil(s)
          /\ gpc[s] \in {"clean_mark", "done_failed"} => ~Registered(s))
  /\ [][\A s \in SessionIDs :
          ConnectFailed(s) =>
            /\ ConnectFailed(s)'
            /\ rc'[s].conn = "open" => rc[s].conn = "open"
            /\ rc'[s].pc = "open" => rc[s].pc = "open"
            /\ (Len(sessions') > Len(sessions)) => \E c \in CallIDs : SpawnBegin(c)]_vars
  /\ \A s \in SessionIDs :
       ConnectFailed(s) ~> [](~Registered(s) /\ SessionStatus(s) = "ended")

\* SpawnAgent has just returned nil for an agent whose Connect has already failed.
C8_Witness ==
  /\ ret.op = "spawn" /\ ret.err = "nil"
  /\ ConnectFailed(ret.sid)
  /\ ret.token = issued[ret.sid]

LowConfidence ==
  /\ pia.pc \in {"generate", "speak", "return", "returned"}
  /\ pia.err = "nil"
  /\ pia.transcript # ""
  /\ pia.conf < ConfThreshold

VendorCalled(name) == \E i \in 1..Len(vcalls) : vcalls[i][1] = name

\* C10 as stated: after Recognize returned a non-empty transcript with
\* confidence below 0.5, ProcessIncomingAudio calls neither Generate nor
\* Speak, writes no audio file, and returns the transcript with a nil error.
C10_Original ==
  LowConfidence =>
    /\ ~VendorCalled("Generate")
    /\ ~VendorCalled("Speak")
    /\ \A i \in 1..Len(files) : files[i].run # runs
    /\ pia.pc = "returned" => (pia.res = pia.transcript /\ pia.err = "nil")

\* ----- vocabulary of the pipeline claims ---------------------------------
\* The run whose call log is log has called vendor operation name and got
\* an error / no error.
VendorFailed(log, name) == \E i \in 1..Len(log) : log[i][1] = name /\ log[i][3]
VendorSucceeded(log, name) == \E i \in 1..Len(log) : log[i][1] = name /\ ~log[i][3]
Calls(log, name) == {i \in 1..Len(log) : log[i][1] = name}

\* No artifact has been written by the current ProcessIncomingAudio
\* invocation; no audio has been published by the current chunk run.
NoArtifact == \A i \in 1..Len(files) : files[i].run # runs
NoAudioOut == \A i \in 1..Len(published) : published[i].run # chunk.run

\* The texts the code substitutes for a failed generation.
FixedReplies == {"I heard you. Let me know if you'd like help.",
                 "I'm sorry, I didn't catch that."}

\* C11: in processAudioChunk, once Recognize has returned without error:
\* with confidence below 0.5 or an empty transcript the run has ended having
\* called nothing but Recognize and published nothing, and the step that
\* dropped the window changed no other state; with confidence at least 0.5
\* and a non-empty transcript the run goes on to the generation step, where
\* Generate is called with the transcript (when an llm is configured).
C11_Gate ==
  /\ [](VendorSucceeded(ccalls, "Recognize") =>
          IF chunk.conf < ConfThreshold \/ chunk.transcript = ""
            THEN /\ chunk.pc = "ended"
                 /\ Len(ccalls) = 1
                 /\ NoAudioOut
            ELSE /\ chunk.pc \in {"generate", "speak", "publish", "ended"}
                 /\ chunk.end # "gate"
                 /\ (vendors.llm /\ chunk.pc # "generate") =>
                       (Len(ccalls) >= 2 /\ ccalls[2][1] = "Generate"
                        /\ ccalls[2][2] = chunk.transcript))
  /\ [][(ChunkRecognize /\ chunk'.pc = "ended") =>
          UNCHANGED <<fileagent, audioloop, endpoints, webhook, manager, vendors, pia, vcalls, files, runs, published, cruns>>]_vars

\* A window with a non-empty transcript of confidence 0.3 has been dropped
\* on a client with all three vendors and an audio track.
C11_Witness ==
  /\ VendorSucceeded(ccalls, "Recognize")
  /\ chunk.pc = "ended" /\ chunk.transcript # "" /\ chunk.conf < ConfThreshold
  /\ vendors.llm /\ vendors.tts /\ chunk.track

\* C12: when Recognize has returned an error, ProcessIncomingAudio has
\* returned that error with an empty transcript and processAudioChunk has
\* returned; in both the failed Recognize is the only vendor call (no
\* Generate, no Speak, no second Recognize) and no audio is written or
\* published.
C12_RecognizeError ==
  /\ VendorFailed(vcalls, "Recognize") =>
       /\ pia.pc = "returned" /\ pia.res = "" /\ pia.err = "recognize"
       /\ Len(vcalls) = 1
       /\ NoArtifact
  /\ VendorFailed(ccalls, "Recognize") =>
       /\ chunk.pc = "ended"
       /\ Len(ccalls) = 1
       /\ NoAudioOut

\* Recognize has failed in a ProcessIncomingAudio invocation and in a
\* streaming window, with every vendor configured.
C12_Witness ==
  /\ VendorFailed(vcalls, "Recognize")
  /\ VendorFailed(ccalls, "Recognize")
  /\ vendors.llm /\ vendors.tts /\ chunk.track

\* C13: when Generate has returned an error the run goes on to the
\* synthesis step with one of the fixed fallback texts as the reply; if
\* Speak is called it is called with that text; ProcessIncomingAudio then
\* returns the recognized transcript with a nil error.
C13_GenerateError ==
  /\ VendorFailed(vcalls, "Generate") =>
       /\ pia.pc \in {"speak", "return", "returned"}
       /\ pia.reply \in FixedReplies
       /\ \A i \in Calls(vcalls, "Speak") : vcalls[i][2] = pia.reply
       /\ (vendors.tts /\ pia.pc # "speak") => Calls(vcalls, "Speak") # {}
       /\ pia.pc = "returned" => (pia.res = pia.transcript /\ pia.err = "nil")
  /\ VendorFailed(ccalls, "Generate") =>
       /\ chunk.pc \in {"speak", "publish", "ended"}
       /\ chunk.response \in FixedReplies
       /\ \A i \in Calls(ccalls, "Speak") : ccalls[i][2] = chunk.response
       /\ (vendors.tts /\ chunk.track /\ chunk.pc # "speak") => Calls(ccalls, "Speak") # {}

\* Generate has failed in both paths, Speak has been called with the
\* fallback in both, and ProcessIncomingAudio has returned.
C13_Witness ==
  /\ VendorFailed(vcalls, "Generate") /\ Calls(vcalls, "Speak") # {}
  /\ pia.pc = "returned" /\ pia.transcript # ""
  /\ VendorFailed(ccalls, "Generate") /\ Calls(ccalls, "Speak") # {}

\* C14: when Speak has returned an error, ProcessIncomingAudio writes no
\* file and returns the recognized transcript with a nil error, and
\* processAudioChunk ends without publishing.
C14_SpeakError ==
  /\ VendorFailed(vcalls, "Speak") =>
       /\ NoArtifact
       /\ pia.pc \in {"return", "returned"}
       /\ pia.pc = "returned" => (pia.res = pia.transcript /\ pia.err = "nil")
  /\ VendorFailed(ccalls, "Speak") =>
       /\ NoAudioOut
       /\ chunk.pc = "ended"

\* Speak has failed in a ProcessIncomingAudio invocation that has returned a
\* non-empty transcript, and in a streaming window.
C14_Witness ==
  /\ VendorFailed(vcalls, "Speak") /\ pia.pc = "returned" /\ pia.res # ""
  /\ VendorFailed(ccalls, "Speak")

\* C15: on a manager without a recognizer, a ProcessIncomingAudio
\* invocation has returned ("", not-configured error) without any vendor
\* call and without writing a file.
C15_NoRecognizer ==
  (~vendors.stt /\ pia.pc # "idle") =>
     /\ pia.pc = "returned" /\ pia.res = "" /\ pia.err = "stt not configured"
     /\ vcalls = <<>>
     /\ NoArtifact

\* ProcessIncomingAudio has returned on a manager that has an llm and a tts
\* but no recognizer.
C15_Witness ==
  /\ ~vendors.stt /\ vendors.llm /\ vendors.tts
  /\ pia.pc = "returned" /\ pia.audio # <<>>

\* ----- webhook vocabulary ------------------------------------------------
\* Handler h has finished the work for an event of type t and is about to
\* write its response.
Handled(h, t) == wh[h].pc = "respond" /\ wh[h].type = t

\* A step in which SpawnAgent is entered for callID: it returns already-exists
\* or creates the agent's session row.
SpawnAgentInvoked(callID) ==
  \/ ret'.op = "spawn" /\ ret'.err = "exists" /\ ret'.call = callID
  \/ Len(sessions') = Len(sessions) + 1 /\ sessions'[Len(sessions')].call = callID

\* C16: a participant_joined event makes the handler call SpawnAgent for the
\* call of the identity's session exactly when the identity is that of a
\* caller session: a handled join has called SpawnAgent if and only if its
\* identity is a caller row, the call it spawned for is that row's call, and
\* SpawnAgent is entered by no step other than such a join's.
C16_JoinSpawnsForCaller ==
  /\ [](\A h \in Handlers :
          Handled(h, "participant_joined") =>
            /\ (wh[h].spawn # "none") <=> CallerExists(callers, wh[h].identity)
            /\ wh[h].spawn # "none" => wh[h].call = CallerCall(wh[h].identity))
  /\ [][\A c \in CallIDs :
          SpawnAgentInvoked(c) =>
            \E h \in Handlers :
              /\ wh[h].pc = "join_spawn"
              /\ wh[h].type = "participant_joined"
              /\ CallerExists(callers, wh[h].identity)
              /\ CallerCall(wh[h].identity) = c
              /\ wh'[h].spawn # "none"]_vars

\* A join carrying the identity of the agent that an earlier caller join
\* spawned has been handled without a spawn.
C16_Witness ==
  \E h \in Handlers :
    /\ Handled(h, "participant_joined")
    /\ SessionExists(sessions, wh[h].identity)
    /\ wh[h].spawn = "none"
    /\ wh[h].call \in DOMAIN agents

\* Handler h has handled a participant_joined event carrying the identity of
\* the caller session of call c, and no participant_left or room event has
\* been dispatched for c so far.
JoinsOnly(h, c) ==
  /\ Handled(h, "participant_joined")
  /\ wh[h].identity = CallerSID(c)
  /\ CallerExists(callers, wh[h].identity)
  /\ c \notin leftSeen

\* What scenario B expects after the joins: 204, caller session and call
\* active, one agent session row for the call, active and holding a token;
\* this join's SpawnAgent made that row or was rejected as already existing.
JoinOutcome(h, c) ==
  /\ wh[h].code = 204
  /\ callers[c] = "active"
  /\ calls[c] = "active"
  /\ Cardinality(AgentSessions(c)) = 1
  /\ \A s \in AgentSessions(c) :
       /\ sessions[s].status = "active"
       /\ sessions[s].token # NoToken
       /\ wh[h].spawn = "called" => s = wh[h].key
       /\ wh[h].spawn = "exists" => (AgentExists(agents, c) /\ agents[c] = s)
  /\ wh[h].spawn \in {"called", "exists"}

\* C17 (as amended): with token issuance configured and while no connection
\* attempt of the call's agent has failed, after one or more
\* participant_joined events for the caller identity each is answered 204,
\* the caller session and the call are active and exactly one agent session
\* row exists for the call, active and with a token; a repeated join's
\* SpawnAgent is rejected as already existing and the request still succeeds.
C17_JoinsConfigured ==
  \A h \in Handlers, c \in CallIDs :
    (JoinsOnly(h, c) /\ CfgOK /\ \A s \in AgentSessions(c) : ~ConnectFailed(s))
      => JoinOutcome(h, c)

\* C17 as stated, for every configuration and every outcome of Connect.
C17_Original ==
  \A h \in Handlers, c \in CallIDs : JoinsOnly(h, c) => JoinOutcome(h, c)

\* A repeated join has been handled: its SpawnAgent was rejected as already
\* existing.
C17_Witness ==
  \E h \in Handlers, c \in CallIDs :
    /\ JoinsOnly(h, c) /\ CfgOK
    /\ \A s \in AgentSessions(c) : ~ConnectFailed(s)
    /\ wh[h].spawn = "exists"

\* Agent s is running: its goroutine is inside Connect or waiting on its
\* context, which has not been cancelled.
Running(s) == gpc[s] \in {"dial", "peer", "wait"} /\ ~ctxDone[s]

\* Handler h has handled, with no other webhook request in progress
\* meanwhile, a participant_left event carrying the identity of the caller
\* session of call c.
CallerLeft(h, c) ==
  /\ Handled(h, "participant_left")
  /\ wh[h].identity = CallerSID(c)
  /\ CallerExists(callers, wh[h].identity)
  /\ ~wh[h].overlap

\* C18: once the caller's participant_left has been handled the response is
\* 204, the registry has no handle for the call, the caller session and the
\* call are "ended", no agent of the call is still running and the agent
\* this handler stopped has status "ended"; a handled participant_left has
\* called StopAgent only for a caller identity.
C18_Original ==
  \A h \in Handlers :
    /\ \A c \in CallIDs :
         CallerLeft(h, c) =>
           /\ wh[h].code = 204
           /\ ~AgentExists(agents, c)
           /\ callers[c] = "ended"
           /\ calls[c] = "ended"
           /\ \A s \in AgentSessions(c) :
                /\ ~Running(s)
                /\ (wh[h].stop = "called" /\ wh[h].key = s) => sessions[s].status = "ended"
    /\ (Handled(h, "participant_left") /\ wh[h].stop # "none")
         => CallerExists(callers, wh[h].identity)

\* Handler h has handled, with no other webhook request in progress
\* meanwhile, a room_ended or room_disconnected event that names a room.
RoomClosed(h) ==
  /\ wh[h].pc = "respond"
  /\ wh[h].type \in RoomEvents
  /\ wh[h].room # NoCall
  /\ ~wh[h].overlap

\* C19: a handled room_ended or room_disconnected event naming room R has
\* marked call R ended (when there is such a call) and has called
\* StopAgent(R); whether StopAgent stopped an agent or returned the no-agent
\* error, the call is ended, no handle is left for R and the response is 204.
C19_RoomEnded ==
  \A h \in Handlers :
    RoomClosed(h) =>
      /\ wh[h].code = 204
      /\ wh[h].stop \in {"called", "noagent"}
      /\ wh[h].stop = "called" => stops[wh[h].key].call = wh[h].room
      /\ CallExists(calls, wh[h].room) => calls[wh[h].room] = "ended"
      /\ ~AgentExists(agents, wh[h].room)

\* A room event for a call without an agent has been handled: StopAgent
\* returned the no-agent error.
C19_Witness ==
  \E h \in Handlers :
    /\ RoomClosed(h)
    /\ CallExists(calls, wh[h].room)
    /\ wh[h].stop = "noagent"
    /\ wh[h].code = 204

\* C20: an event whose type is none of participant_joined, participant_left,
\* room_ended and room_disconnected goes from the switch straight to the 204
\* response, and no step of its handler changes a call status, a session
\* row (status, token) or the agent registry.
C20_OtherIgnored ==
  [][\A h \in Handlers :
       ((wh[h].type \in OtherEvents \/ wh'[h].type \in OtherEvents) /\ wh'[h] # wh[h])
         => /\ UNCHANGED <<sessions, callers, calls, agents, clients, cancels>>
            /\ wh'[h].type \in OtherEvents => (wh'[h].pc = "respond" /\ wh'[h].code = 204)
            /\ wh[h].type \in OtherEvents => wh'[h].pc \in {"idle", "respond"}]_vars

\* An event of another type, carrying the caller's identity, has been handled
\* while the caller's call has an agent registered.
C20_Witness ==
  \E h \in Handlers :
    /\ wh[h].pc = "respond"
    /\ wh[h].type \in OtherEvents
    /\ wh[h].code = 204
    /\ CallerExists(callers, wh[h].identity)
    /\ AgentExists(agents, CallerCall(wh[h].identity))

\* The signature header of the request handler h is serving is missing, or
\* is neither the hex nor the base64 HMAC-SHA256 of its body under the secret.
BadSignature(h) ==
  \/ wh[h].sig = NoSig
  \/ /\ wh[h].sig # HexEncode(HMAC(Secret, wh[h].body))
     /\ wh[h].sig # Base64Encode(HMAC(Secret, wh[h].body))

\* C21: with a signaling secret configured, a POST to the webhook whose
\* signature is missing or matches neither encoding of the body's MAC is
\* answered 401 without being parsed (whether or not its body is JSON, no
\* event type or identity is taken from it), and no step of its handler
\* changes a call, a session or the registry.
C21_BadSignature ==
  /\ [](\A h \in Handlers :
          (cfg.api_secret /\ wh[h].pc # "idle" /\ wh[h].method = "POST" /\ BadSignature(h))
            => /\ wh[h].pc = "respond"
               /\ wh[h].code = 401
               /\ wh[h].type = "" /\ wh[h].identity = NoSession /\ wh[h].room = NoCall)
  /\ [][\A h \in Handlers :
          ((wh[h].code = 401 \/ wh'[h].code = 401)
             /\ [wh'[h] EXCEPT !.overlap = wh[h].overlap] # wh[h])
            => /\ UNCHANGED <<sessions, callers, calls, agents, clients, cancels>>
               /\ wh[h].code = 401 => wh'[h].pc = "idle"]_vars

\* A request signed under another key, for an event that would end a call
\* with a registered agent if acted on, is about to be answered 401.
C21_Witness ==
  \E h \in Handlers :
    /\ cfg.api_secret
    /\ wh[h].pc = "respond" /\ wh[h].code = 401
    /\ wh[h].sig = HexEncode(HMAC("other", wh[h].body))
    /\ wh[h].body.type = "room_ended"
    /\ AgentExists(agents, wh[h].body.room)

\* ----- sessions endpoint vocabulary -------------------------------------
\* The sessions endpoint has just answered an authorized token request.
TokenServed == resp.op = "token" /\ resp.code # 401

\* No token is persisted for the id: no session row has it, or its row's
\* token was never set.
NoPersistedToken(id) ==
  \/ GetSessionTokenErr(sessions, callers, id)
  \/ GetSessionToken(sessions, id) = NoToken

\* C22: a token request for an id without a persisted token, whether the
\* session row lacks a token or no session row has the id, is answered 404
\* and carries no token.
C22_Original ==
  (TokenServed /\ NoPersistedToken(resp.id)) => (resp.code = 404 /\ resp.token = NoToken)

\* The request just answered carried the configured secret, as Bearer
\* Authorization value or in X-Agent-Auth.
CarriesSecret ==
  \/ resp.auth = <<"Bearer ", tokenSecret>>
  \/ resp.xauth = tokenSecret

\* C23: with the token-endpoint secret configured, a token request that
\* carries the secret as Bearer value or in X-Agent-Auth goes on to the store;
\* every other request is answered 401 with no token, the store not read.
C23_TokenAuth ==
  (resp.op = "token" /\ tokenSecret # "") =>
     /\ CarriesSecret => (resp.code # 401 /\ resp.read)
     /\ ~CarriesSecret => (resp.code = 401 /\ ~resp.read /\ resp.token = NoToken)
     /\ resp.token # NoToken => (CarriesSecret /\ resp.token = GetSessionToken(sessions, resp.id))

\* A request giving the secret without the Bearer prefix, for a session that
\* has a token, has been answered 401.
C23_Witness ==
  /\ tokenSecret # ""
  /\ resp.op = "token" /\ resp.code = 401
  /\ resp.auth = <<tokenSecret>>
  /\ GetSessionToken(sessions, resp.id) # NoToken

\* C24: CreateCall is all-or-nothing.  In every state a call row exists
\* exactly when its caller session row does; a CreateCall that returns nil
\* has added both, in status "new", the session a caller session of that
\* call; one that returns an error (a failed Begin, insert or Commit, or an
\* empty caller id, for which no transaction is started) has changed no
\* table; and nothing is visible before the Commit.
C24_AllOrNothing ==
  /\ [](\A c \in CallIDs : CallExists(calls, c) <=> CallerExists(callers, CallerSID(c)))
  /\ [][/\ ret'.op = "CreateCall" =>
             IF ret'.err = "nil"
               THEN /\ ~CallExists(calls, ret'.call)
                    /\ calls' = [calls EXCEPT ![ret'.call] = "new"]
                    /\ callers' = [callers EXCEPT ![ret'.call] = "new"]
                    /\ ret'.sid = CallerSID(ret'.call)
                    /\ SessionType(sessions', callers', ret'.sid) = "caller"
                    /\ FindSessionByIdentity(sessions', callers', ret'.sid) = ret'.call
                    /\ UNCHANGED sessions
               ELSE UNCHANGED <<calls, callers, sessions>>
        /\ ret'.op # "CreateCall" => UNCHANGED <<calls, callers>>
        /\ (tx.pc = "idle" /\ tx'.pc # "idle") => tx'.callerID # ""]_vars

\* A CreateCall whose Commit failed has returned its error, after an earlier
\* CreateCall had succeeded.
C24_Witness ==
  /\ ret.op = "CreateCall" /\ ret.err = "commit"
  /\ \E c \in CallIDs : CallExists(calls, c)

\* C25: a token written by UpdateSessionToken on an existing session is what
\* GetSessionToken of that session returns, unaltered, until the next token
\* write; UpdateSessionToken on a session id that has no row returns an
\* error and changes no table.
C25_TokenRoundTrip ==
  /\ [](ret.op = "GetSessionToken" /\ SessionExists(sessions, ret.sid) =>
          ret.err = "nil" /\ ret.token = written[ret.sid])
  /\ [][ret'.op = "UpdateSessionToken" =>
          IF SessionExists(sessions, ret'.sid)
            THEN /\ ret'.err = "nil"
                 /\ GetSessionToken(sessions', ret'.sid) = ret'.token
                 /\ written'[ret'.sid] = ret'.token
                 /\ \A o \in DOMAIN sessions \ {ret'.sid} : sessions'[o] = sessions[o]
            ELSE /\ ret'.err # "nil"
                 /\ UNCHANGED <<sessions, calls, callers, written>>]_vars

\* GetSessionToken has returned the two-character token of the second
\* session while the first session holds a different, non-empty one.
C25_Witness ==
  /\ ret.op = "GetSessionToken" /\ ret.err = "nil"
  /\ ret.sid = 2 /\ ret.token = <<2, 1>>
  /\ written[1] = <<1>>

\* A Disconnect of agent s's room client has completed (factory.go:363, its
\* first statement, cancels the client's context for good).
DisconnectCompleted(s) == rc[s].cancelled

\* C26: once a Disconnect of a room client has completed, the client holds
\* neither an open websocket nor an open peer connection, whatever Connect
\* does afterwards.
C26_Original ==
  \A s \in SessionIDs :
    DisconnectCompleted(s) => (rc[s].conn # "open" /\ rc[s].pc # "open")

\* C27: when Connect has failed, at whichever step, every transport resource
\* of the attempt is released: the websocket is closed, handleMessages has
\* terminated and the peer connection is closed.
C27_Original ==
  \A s \in SessionIDs :
    ConnectFailed(s) =>
      /\ rc[s].conn # "open"
      /\ ~HandleMessagesRunning(rc[s])
      /\ rc[s].pc # "open"

\* C28: after Connect has returned nil for an agent, the cancellation of its
\* context eventually makes the run loop call Disconnect and then write the
\* session status "ended".  The write follows the Disconnect
\* unconditionally (agentmgr.go:109-112 only logs what Disconnect returns),
\* and the goroutine ends with the status "ended".
C28_CancelEnds ==
  /\ [][\A s \in SessionIDs :
          /\ (gpc[s] = "wait" /\ gpc'[s] # "wait") =>
               (ctxDone[s] /\ gpc'[s] = "run_mark" /\ DisconnectCompleted(s)'
                /\ rc'[s].conn # "open" /\ rc'[s].pc # "open")
          /\ (gpc[s] = "run_mark" /\ gpc'[s] # "run_mark") =>
               (gpc'[s] = "done" /\ SessionStatus(s)' = "ended")
          /\ gpc[s] = "done" => (gpc'[s] = "done" /\ SessionStatus(s)' = "ended")]_vars
  /\ \A s \in SessionIDs :
       (gpc[s] = "wait" /\ ctxDone[s]) ~>
          (gpc[s] = "done" /\ DisconnectCompleted(s) /\ SessionStatus(s) = "ended")

\* The run loop of a cancelled agent has written "ended" while the StopAgent
\* that cancelled it has not yet reached its own status write.
C28_Witness ==
  \E s \in SessionIDs :
    /\ gpc[s] = "done" /\ SessionStatus(s) = "ended"
    /\ stops[s].pc = "mark"

\* C29: the manager mutex is held only by a SpawnAgent invocation between
\* its Lock and its return, never across Connect, Disconnect or a wait.
\* Whatever Connect or Disconnect is in progress, and however long it takes,
\* the SpawnAgent in progress can take its next step, a free mutex lets
\* SpawnAgent and StopAgent of every call begin, a StopAgent past its
\* critical section goes on without the mutex, and the steps of Connect and
\* Disconnect neither wait for the mutex nor change it.
C29_NoLockAcrossIO ==
  /\ [](/\ mu <=> sp.pc # "idle"
        /\ mu => ENABLED (SpawnToken \/ SpawnActive \/ SpawnRegister \/ SpawnReturn)
        /\ \A c \in CallIDs :
             ~mu => /\ ENABLED StopBegin(c)
                    /\ (AgentExists(agents, c) \/ Len(sessions) < MaxSessions) =>
                          ENABLED SpawnBegin(c)
        /\ \A k \in StopKeys :
             /\ stops[k].pc = "cancel" => ENABLED StopCancel(k)
             /\ stops[k].pc = "disconnect" => ENABLED StopDisconnect(k)
             /\ stops[k].pc = "mark" => ENABLED StopMark(k)
        /\ \A s \in SessionIDs :
             /\ gpc[s] = "dial" => ENABLED ConnectDial(s)
             /\ gpc[s] = "peer" => ENABLED ConnectPeer(s)
             /\ (gpc[s] = "wait" /\ ctxDone[s]) => ENABLED RunDisconnect(s))
  /\ [][(\E s \in SessionIDs : gpc'[s] # gpc[s] \/ rc'[s] # rc[s]) =>
           (UNCHANGED mu \/ SpawnRegister)]_vars

\* The SpawnAgent of one call is about to return while the Connect of
\* another call's agent has not got past its dial and the StopAgent of that
\* other call is in its Disconnect.
C29_Witness ==
  \E s \in SessionIDs :
    /\ gpc[s] = "dial"
    /\ sp.pc = "return" /\ sp.sid # s
    /\ stops[s].pc = "disconnect"

\* C30: what a processAudioChunk started by a flush reads is the window
\* accumulated at the moment of the flush: the bytes of the slice it was
\* passed stay what they were then, the packets read after the flush go
\* only into the new window, and the goroutine reads nothing else.
C30_Original ==
  \A i \in 1..Len(flushed) :
    /\ Bytes(arrays, flushed[i].audio) = flushed[i].handed
    /\ flushed[i].read = SubSeq(flushed[i].handed, 1, Len(flushed[i].read))

\* ----- HandleAudioFile vocabulary ----------------------------------------
HafCalls(name) == {i \in 1..Len(haf.calls) : haf.calls[i][1] = name}
HafFailed(name) == \E i \in HafCalls(name) : haf.calls[i][3]
HafSucceeded(name) == \E i \in HafCalls(name) : ~haf.calls[i][3]

\* The vendor calls are made in the pipeline's order, each at most once, each
\* on the output of the one before.
HafInOrder ==
  /\ \A i \in 1..Len(haf.calls) :
       /\ haf.calls[i][1] = <<"Recognize", "Generate", "SpeakStream", "Speak">>[i]
       /\ i > 1 => (i = 4) = haf.calls[i - 1][3]
  /\ \A i \in HafCalls("Generate") : haf.calls[i][2] = haf.transcript
  /\ \A i \in HafCalls("SpeakStream") \cup HafCalls("Speak") : haf.calls[i][2] = haf.resp

\* C31: HandleAudioFile calls Recognize, Generate on the transcript and the
\* synthesizer on the reply, in this order; when recognition, generation and
\* synthesis have succeeded it returns nil and the output file holds the
\* synthesized audio of the reply, which is not empty; a Recognize or
\* Generate failure is returned with the output path untouched; Speak is
\* called exactly when SpeakStream has failed, and the synthesis error is
\* returned only when both have failed.
C31_Original ==
  /\ HafInOrder
  /\ (haf.pc = "returned" /\ haf.err = "nil") =>
        /\ HafSucceeded("Recognize") /\ HafSucceeded("Generate")
        /\ HafSucceeded("SpeakStream") \/ HafSucceeded("Speak")
        /\ outFile = Wav(haf.resp)
        /\ outFile # <<>>
  /\ (haf.pc = "returned" /\ haf.err \in {"stt", "llm"}) =>
        /\ outFile = haf.before
        /\ HafCalls("SpeakStream") \cup HafCalls("Speak") = {}
  /\ (haf.pc = "returned" /\ haf.err = "tts") =>
        (HafFailed("SpeakStream") /\ HafFailed("Speak"))
  /\ (haf.pc = "returned" /\ HafSucceeded("SpeakStream")) => haf.err = "nil"

\* C32: the connect-failure cleanup of an agent removes from the registry
\* only that agent's own handle: a handle is never removed by the cleanup
\* of another agent, so an agent whose Connect has not failed and that no
\* StopAgent has taken stays registered once its SpawnAgent has registered it.
C32_Original ==
  \A s \in SessionIDs :
    /\ \A e \in removedBy[s] : e[1] = "cleanup" => e[2] = s
    /\ (gpc[s] \in {"dial", "peer", "wait"} /\ <<"stop", NoSession>> \notin removedBy[s])
         => Registered(s)

\* ----- audio loop vocabulary ---------------------------------------------
\* The windows handed over by the first n flushes, one after the other.
RECURSIVE FlushedUpTo(_)
FlushedUpTo(n) == IF n = 0 THEN <<>> ELSE FlushedUpTo(n - 1) \o flushed[n].handed

\* C33: a flush is dispatched only for a non-empty window; right after a
\* flush the current window is empty; the windows handed over, in flush
\* order, followed by the current window are the payloads read so far in
\* arrival order (so the flushed windows are a prefix of them, with no byte
\* duplicated, reordered or in two windows); and once the loop has returned
\* nothing more is flushed: what the window then holds is dropped.
C33_Windows ==
  /\ [](/\ \A i \in 1..Len(flushed) : flushed[i].handed # <<>>
        /\ audioLoop = "running" =>
             FlushedUpTo(Len(flushed)) \o Bytes(arrays, audioBuffer) = inbound
        /\ Len(FlushedUpTo(Len(flushed))) <= Len(inbound)
        /\ FlushedUpTo(Len(flushed)) = SubSeq(inbound, 1, Len(FlushedUpTo(Len(flushed)))))
  /\ [][/\ Len(flushed') > Len(flushed) =>
             (audioLoop = "running" /\ audioBuffer'.len = 0
              /\ flushed'[Len(flushed')].handed = Bytes(arrays, audioBuffer))
        /\ audioLoop = "returned" =>
             (audioLoop' = "returned" /\ Len(flushed') = Len(flushed)
              /\ UNCHANGED <<audioBuffer, inbound>>)]_vars

\* The loop has returned after two flushes with a frame still in its window.
C33_Witness ==
  /\ audioLoop = "returned"
  /\ Len(flushed) = 2
  /\ audioBuffer.len > 0
  /\ Len(inbound) > Len(FlushedUpTo(2))

\* The run started by flush i has not ended.
InFlight(i) == i \in 1..Len(flushed) /\ flushed[i].ended = 0

\* C34: a flush never waits for the run of an earlier one.  Whatever runs
\* are in flight, a tick on a non-empty window flushes it, the loop goes on
\* reading packets, and every run in flight can take its next step; nothing
\* orders the runs, which end in either order.
C34_NoSerialization ==
  /\ audioLoop = "running" =>
       /\ (audioBuffer.len > 0 /\ Len(flushed) < MaxFlushes) => ENABLED AudioFlush
       /\ nframes < MaxFrames =>
            \A payload \in Payloads : ENABLED AudioReadRTP(payload, FALSE)
  /\ \A i \in 1..Len(flushed) :
       InFlight(i) => ENABLED (ChunkReadByte(i) \/ ChunkEnd(i))

\* The run of the second window has ended first; the run of the first window
\* has not yet read a byte, and the loop has appended a packet since.
C34_Witness ==
  /\ Len(flushed) = 2
  /\ flushed[2].ended = 1
  /\ InFlight(1) /\ flushed[1].read = <<>>
  /\ audioLoop = "running" /\ audioBuffer.len > 0

\* The order of the statuses of a call and of a session.
StatusRank(status) ==
  IF status = "new" THEN 1 ELSE IF status = "active" THEN 2 ELSE IF status = "ended" THEN 3 ELSE 0

\* C35: the status of a call only moves forward along new, active, ended:
\* no step takes a call marked ended back to active, or an active one back
\* to new, and no call row is ever deleted.
C35_Original ==
  [][\A c \in CallIDs :
       /\ StatusRank(calls'[c]) >= StatusRank(calls[c])
       /\ CallExists(calls, c) => CallExists(calls', c)]_vars

\* C36: the status of an agent session only moves forward along new,
\* active, ended: once the run loop or the connect-failure cleanup of the
\* session's agent has marked it ended, no step sets it back to active.
C36_Original ==
  [][\A s \in SessionIDs :
       (gpc[s] \in {"done", "done_failed"} /\ SessionStatus(s) = "ended")
         => SessionStatus(s)' = "ended"]_vars

\* C37: whenever no webhook handler is in progress, an agent handle is
\* registered only for a call whose persisted status is "active".
C37_Original ==
  (\A h \in DOMAIN wh : wh[h].pc = "idle")
    => \A c \in DOMAIN agents : calls[c] = "active"

\* C38: a SpawnAgent that fails at token issuance returns an error with
\* empty session id and token, registers no handle for the call, and leaves
\* no row of the session it created in status new or active.
C38_Original ==
  [][(sp.pc = "token" /\ ret'.op = "spawn" /\ ret'.err \in {"url", "key"})
       => /\ ret'.sid = NoSession /\ ret'.token = NoToken
          /\ ~AgentExists(agents', sp.call)
          /\ ~(/\ SessionExists(sessions', sp.sid)
               /\ sessions'[sp.sid].status \in {"new", "active"})]_vars

\* The mutex is held, a StopAgent has not returned, or a connect-failure
\* cleanup is waiting for the mutex.
Pending ==
  \/ mu
  \/ sp.pc # "idle"
  \/ \E k \in StopKeys : stops[k].pc \in {"cancel", "disconnect", "mark"}
  \/ \E s \in SessionIDs : gpc[s] = "clean_lock"

\* C39: the manager mutex never deadlocks.  It is held only by a SpawnAgent
\* that is still running and nothing has panicked; whenever the mutex is
\* held, a SpawnAgent or StopAgent is in progress or a connect-failure
\* cleanup waits for the mutex (also one that started while SpawnAgent held
\* it), a state follows in which the mutex is free, every invocation has
\* returned and no cleanup waits.
C39_NoDeadlock ==
  /\ [](mu => sp.pc # "idle")
  /\ [](~panicked)
  /\ Pending ~> ~Pending

\* The cleanup of a failed Connect is waiting for the mutex that the
\* SpawnAgent which started it has not released yet.
C39_Witness ==
  \E s \in SessionIDs : gpc[s] = "clean_lock" /\ mu /\ sp.sid = s

\* What the registry holds for a call.
HandleOf(c) ==
  <<c \in DOMAIN agents, MapGet(agents, c),
    c \in DOMAIN clients, MapGet(clients, c),
    c \in DOMAIN cancels, MapGet(cancels, c)>>

\* A step of SpawnAgent, of StopAgent, of the connect-failure cleanup or of
\* the run loop's teardown for the call.
StepFor(c) ==
  \/ SpawnBegin(c)
  \/ sp.call = c /\ (SpawnToken \/ SpawnActive \/ SpawnRegister \/ SpawnReturn)
  \/ StopBegin(c)
  \/ \E k \in StopKeys :
       stops[k].call = c /\ (StopCancel(k) \/ StopDisconnect(k) \/ StopMark(k))
  \/ \E s \in SessionIDs :
       /\ SessionExists(sessions, s) /\ SessionCall(s) = c
       /\ (CleanupRemove(s) \/ CleanupMark(s) \/ RunDisconnect(s) \/ RunMark(s))

\* C40: a step of SpawnAgent, StopAgent, the connect-failure cleanup or the
\* run loop's teardown for call A leaves the registry handle of every other
\* call B as it was, and the status and token of every session of B.
C40_Frame ==
  [][\A a, b \in CallIDs :
       (a # b /\ StepFor(a))
         => /\ HandleOf(b)' = HandleOf(b)
            /\ \A s \in SessionIDs :
                 (SessionExists(sessions, s) /\ SessionCall(s) = b)
                   => /\ SessionExists(sessions', s)
                      /\ sessions'[s].call = b
                      /\ sessions'[s].status = sessions[s].status
                      /\ sessions'[s].token = sessions[s].token]_vars

\* StopAgent of one call has returned nil while the agent of another call
\* is registered and its session active.
C40_Witness ==
  \E a, b \in CallIDs :
    /\ a # b
    /\ ret.op = "stop" /\ ret.call = a /\ ret.err = "nil"
    /\ AgentExists(agents, b)
    /\ SessionStatus(agents[b]) = "active"

====
